---- MODULE Spec2Model ----
(***************************************************************************)
(* A model of the numerical cores of entropy_zero:                         *)
(*   - the Binary Spiral particle pool (ParticlePool::emit and the         *)
(*     emit_particles / update_particles / render_ui systems), and         *)
(*   - the Ripple Tank wave field (rasterize_obstacles, apply_wave_sources,*)
(*     update_wave_field, update_probes, WaveField::sample) with the       *)
(*     keyboard, the moving sources and the editing of sources and         *)
(*     obstacles (handle_mouse_input, render_inspector_ui), and            *)
(*   - the Particle System's parallel update_particles.                    *)
(*                                                                         *)
(* The loops over the grid's cells and over the particles are also         *)
(* followed element by element, in every order of the elements.            *)
(*                                                                         *)
(* f32 amplitudes are fixed-point integers in units of 1/SCALE.  World     *)
(* coordinates are integers.  The 200_000-slot pool, the 256x256 grid and  *)
(* the 512-sample probe history are scaled down to the bounds below.       *)
(*                                                                         *)
(* Both plugins register their systems with add_systems(Update, (a, b,...))*)
(* without .chain(), .before() or .after(): the scheduler runs every       *)
(* system once per frame, never runs two systems with conflicting access   *)
(* at the same time, and fixes no order among them.  A frame is therefore  *)
(* modelled as the systems running one at a time in any order.             *)
(***************************************************************************)
EXTENDS Integers, Sequences, FiniteSets, TLC

\* ------------------------------------------------------------------ bounds
\* Pool capacity (200_000 in binary_spiral/mod.rs:26), scaled down.
MAX_PARTICLES == 3
\* Largest particle_life / emission_rate the model draws.
MaxLife == 2
MaxRate == 1
\* Frames of the Binary Spiral schedule the model runs.
MaxPoolFrames == 3

\* Grid size (256 x 256 in the source), scaled down.
GRID_WIDTH == 5
GRID_HEIGHT == 4
\* Probe history capacity (512 in ripple_tank/mod.rs:31), scaled down.
MAX_PROBE_HISTORY == 2
\* Frames of the Ripple Tank schedule the model runs.
MaxWaveFrames == 4
\* Frames it runs when the keyboard and the inspector take part.
MaxControlFrames == 2
\* Frames of a run that follows the stepper cell by cell.
MaxStepFrames == 1
\* Frames of a run that follows the particle updates element by element.
MaxPassFrames == 2
\* Number of particles the particle system spawns.
PARTICLE_COUNT == 3
\* A wide, low grid that holds a whole line source or phased array.
WIDE_WIDTH == 40
WIDE_HEIGHT == 3

\* The two orbital sources spawned by setup_scene.
NUM_SOURCES == 2
\* ripple_tank/mod.rs: world units per grid cell.
GRID_SCALE == 2
\* One f32 unit of amplitude, speed or damping, in fixed-point steps.
SCALE == 1000
\* physics.rs:309, 319: half length of a line source, phased-array spacing.
LINE_HALF_LEN == 20
ARRAY_SPACING == 8
\* physics.rs:372: amplitudes are clamped to [-5.0, 5.0].
CLAMP_LIMIT == 5
\* physics.rs:117: a click selects an object closer than 15.0 world units.
PICK_RADIUS == 15
\* `bounds - 10.0` of update_moving_sources
WRAP_MARGIN == 10
\* Angles (2*pi*f*t + phase) are counted in steps of 1/TURN of a turn; the
\* phased array's 0.2 rad element offset is one step.
TURN == 32

VARIABLES
    \* ---- Binary Spiral ----
    particles,      \* ParticlePool.particles : 0..MAX_PARTICLES-1 -> Particle
    next_index,     \* ParticlePool.next_index
    bs_config,      \* BinarySpiralConfig: paused, emission_rate, particle_life
    bs_ran,         \* systems of the Binary Spiral schedule that ran this frame
    bs_frame,       \* frames completed
    emit_left,      \* pool.emit calls left in the running emit_particles loop
    \* ---- Ripple Tank ----
    current,        \* WaveField.current : 0..width*height-1 -> amplitude
    previous,       \* WaveField.previous
    obstacle_map,   \* WaveField.obstacle_map
    width,          \* WaveField.width
    height,         \* WaveField.height
    rt_config,      \* RippleTankConfig: wave_speed, damping, time_scale, paused,
                    \*                   accumulated_time
    sources,        \* the (Transform, WaveSource) entities, in query order
    obstacles,      \* the (Transform, Obstacle) entities, in query order
    probes,         \* the (Transform, Probe) entities, in query order
    rt_ran,         \* systems of the Ripple Tank schedule that ran this frame
    rt_frame,       \* frames completed
    rt_systems,     \* the systems of the Update schedule that the run exercises
    ui_state,       \* UIState: selected_entity, dragging (0: None), drag_offset
    mouse_left,     \* ButtonInput<MouseButton>: the left button is held
    commands,       \* entities whose despawn is queued in Commands
    next,           \* the `next` vector of a running update_wave_field (<<>>: none)
    step_pass,      \* the running update_wave_field: active, todo (the interior
                    \* cells its loops have not reached yet)
    \* ---- Particle System (classical mechanics) ----
    ps_particles,   \* the (Transform, Particle) entities: translation, velocity
    ps_config,      \* ParticleConfig: gravity, bounds, speed_multiplier, paused
    ps_ran,         \* systems of the Particle System schedule that ran this frame
    ps_frame,       \* frames completed
    ps_pass,        \* the running par_iter_mut pass: active, todo (entities not
                    \* yet visited), dt, gravity, bounds (the locals read before it)
    \* ---- the run ----
    run,            \* app: the application that runs; frames: the number of
                    \* frames the Binary Spiral or the Particle System runs for
    pool_pass,      \* the running update_particles loop over the pool: active,
                    \* todo (slots not yet visited)
    \* ---- history (not program state) ----
    emitted,        \* number of pool.emit calls so far
    em_tag,         \* slot -> number of the emission that last wrote it (0: none)
    em_life,        \* slot -> life given to that emission
    em_age,         \* slot -> unpaused update_particles calls since that emission
    rt_order,       \* the Ripple Tank systems that ran this frame, in order
    probe_ticks,    \* number of update_probes runs so far
    after_clear,    \* phase "clean": WaveField::clear ran and since then no
                    \* enabled source was injected and no step ran; "stepped":
                    \* exactly one step ran after that, again with no such
                    \* injection; "none" otherwise.  dirty: the field that the
                    \* clear found held a non-zero cell
    raster_log,     \* every rasterization so far, as <<obstacle_map before the
                    \* call, obstacles, obstacle_map after it>>
    pass_start,     \* the elements (pool slots or particle entities) as they
                    \* were when the running pass over them began
    last            \* the operation that made the last step, with its arguments
                    \* (was_active: the slot an emit overwrote was active)

poolVars == <<particles, next_index, bs_config, bs_ran, bs_frame, emit_left,
              emitted, em_tag, em_life, em_age>>

fieldVars == <<current, previous, obstacle_map, width, height>>

sceneVars == <<sources, obstacles, probes>>

editVars == <<rt_systems, ui_state, mouse_left, commands>>

waveVars == <<current, previous, obstacle_map, width, height, rt_config,
              sources, obstacles, probes, rt_ran, rt_frame,
              rt_systems, ui_state, mouse_left, commands,
              rt_order, probe_ticks, after_clear, raster_log>>

stepVars == <<next, step_pass>>

psVars == <<ps_particles, ps_config, ps_ran, ps_frame, ps_pass>>

passVars == <<pool_pass, pass_start>>

vars == <<particles, next_index, bs_config, bs_ran, bs_frame, emit_left,
          emitted, em_tag, em_life, em_age,
          current, previous, obstacle_map, width, height, rt_config,
          sources, obstacles, probes, rt_ran, rt_frame,
          rt_systems, ui_state, mouse_left, commands,
          rt_order, probe_ticks, after_clear, raster_log,
          next, step_pass, ps_particles, ps_config, ps_ran, ps_frame, ps_pass,
          run, pool_pass, pass_start, last>>

\* ------------------------------------------------------------ Vec3 helpers
Vec3Zero == <<0, 0, 0>>

VAdd(a, b) == <<a[1] + b[1], a[2] + b[2], a[3] + b[3]>>

\* ------------------------------------------------------------ ParticlePool
Slots == 0 .. (MAX_PARTICLES - 1)

\* Particle::default()
ParticleDefault ==
    [position |-> Vec3Zero, velocity |-> Vec3Zero, color |-> Vec3Zero,
     life |-> 0, active |-> FALSE]

\* The (position, velocity, color) triples emit_particles hands to pool.emit:
\* random jitter, random direction and a lerped colour, drawn from a small set.
EmitArgs ==
    { [position |-> <<1, 0, 2>>, velocity |-> <<2, 0, -1>>, color |-> <<1, 0, 0>>],
      [position |-> <<-2, 1, 0>>, velocity |-> <<0, 0, 0>>, color |-> <<0, 1, 1>>] }

NoArgs == [position |-> Vec3Zero, velocity |-> Vec3Zero, color |-> Vec3Zero, life |-> 0]

\* u32::saturating_sub
saturating_sub(a, b) == IF a >= b THEN a - b ELSE 0

\* ParticlePool::emit: the new particle vector.
emit_DropWhenActive(ps, idx, position, velocity, color, life) ==
    IF ps[idx].active
    THEN ps
    ELSE [ps EXCEPT ![idx] = [position |-> position, velocity |-> velocity,
                              color |-> color, life |-> life, active |-> TRUE]]

emit_NoActivate(ps, idx, position, velocity, color, life) ==
    [ps EXCEPT ![idx] = [position |-> position, velocity |-> velocity,
                         color |-> color, life |-> life, active |-> ps[idx].active]]

emit(ps, idx, position, velocity, color, life) ==
    [ps EXCEPT ![idx] = [position |-> position, velocity |-> velocity,
                         color |-> color, life |-> life, active |-> TRUE]]

\* ParticlePool::emit: the new next_index.
emit_next_NoWrap(idx) == idx + 1

emit_next(idx) == (idx + 1) % MAX_PARTICLES

\* The body of update_particles' loop for one particle.
update_one_NoFloor(p) ==
    IF p.active
    THEN LET life == p.life - 1
         IN  [p EXCEPT !.position = VAdd(p.position, p.velocity),
                       !.life = life,
                       !.active = (life # 0)]
    ELSE p

update_one_Linger(p) ==
    IF p.active
    THEN [p EXCEPT !.position = VAdd(p.position, p.velocity),
                   !.life = saturating_sub(p.life, 1),
                   !.active = (p.life # 0)]
    ELSE p

update_one(p) ==
    IF p.active
    THEN LET life == saturating_sub(p.life, 1)
         IN  [p EXCEPT !.position = VAdd(p.position, p.velocity),
                       !.life = life,
                       !.active = (life # 0)]
    ELSE p

\* ------------------------------------------------------------- f32 helpers
\* a * b on fixed-point numbers, rounded to the nearest step.
FMul(a, b) ==
    LET p == a * b
    IN  IF p >= 0
        THEN (p + SCALE \div 2) \div SCALE
        ELSE -((-p + SCALE \div 2) \div SCALE)

\* a / b on fixed-point numbers (b > 0), rounded to the nearest step.
FDiv(a, b) ==
    LET p == a * SCALE
    IN  IF p >= 0
        THEN (2 * p + b) \div (2 * b)
        ELSE -((2 * (-p) + b) \div (2 * b))

\* f32::clamp
clamp(v, lo, hi) == IF v < lo THEN lo ELSE IF v > hi THEN hi ELSE v

\* f32::signum on a finite value (+0.0 gives 1.0)
signum(v) == IF v >= 0 THEN SCALE ELSE -SCALE

\* `world / GRID_SCALE + (n as f32 / 2.0)`, in halves of a cell.
GridCoord2(world, n) == (2 * world) \div GRID_SCALE + n

\* `f as usize` of a float given in halves: truncates, negative saturates to 0.
AsUsize(n2) == IF n2 < 0 THEN 0 ELSE n2 \div 2

\* `f as i32` of a float given in halves: truncates toward zero.
AsI32(n2) == IF n2 < 0 THEN -((-n2) \div 2) ELSE n2 \div 2

\* The world coordinate whose grid coordinate is exactly g on an axis of n cells.
World(g, n) == ((2 * g - n) * GRID_SCALE) \div 2

Abs(v) == IF v < 0 THEN -v ELSE v

\* sin of an angle counted in 1/TURN turns.
SinTable ==
    << 0, 195, 383, 556, 707, 831, 924, 981, 1000, 981, 924, 831, 707, 556, 383, 195,
       0, -195, -383, -556, -707, -831, -924, -981, -1000, -981, -924, -831, -707,
       -556, -383, -195 >>

Sin(angle) == SinTable[(angle % TURN) + 1]

\* --------------------------------------------------- particle_system.rs
\* `v * k` on a Vec3 of fixed-point numbers.
VScale(v, k) == <<FMul(v[1], k), FMul(v[2], k), FMul(v[3], k)>>

\* `velocity.x *= -0.8`
BOUNCE == -800

\* One bounce test of the closure, on one axis: the coordinate leaves
\* [-bounds, bounds], is put back on the wall and the velocity is reflected.
Bounce(x, v, bounds) ==
    IF Abs(x) > bounds
    THEN [x |-> FMul(IF x >= 0 THEN SCALE ELSE -SCALE, bounds), v |-> FMul(v, BOUNCE)]
    ELSE [x |-> x, v |-> v]

\* The closure of `query.par_iter_mut().for_each(..)` applied to element e.
update_body_Coupled(ps, e, dt, gravity, bounds) ==
    LET other == ps[(e % Len(ps)) + 1]
        velocity == VAdd(VAdd(ps[e].velocity, VScale(gravity, dt)),
                         <<other.velocity[1], 0, 0>>)
        translation == VAdd(ps[e].translation, VScale(velocity, dt))
        bx == Bounce(translation[1], velocity[1], bounds)
        by == Bounce(translation[2], velocity[2], bounds)
        bz == Bounce(translation[3], velocity[3], bounds)
    IN  [translation |-> <<bx.x, by.x, bz.x>>, velocity |-> <<bx.v, by.v, bz.v>>]

update_body(ps, e, dt, gravity, bounds) ==
    LET velocity == VAdd(ps[e].velocity, VScale(gravity, dt))
        translation == VAdd(ps[e].translation, VScale(velocity, dt))
        bx == Bounce(translation[1], velocity[1], bounds)
        by == Bounce(translation[2], velocity[2], bounds)
        bz == Bounce(translation[3], velocity[3], bounds)
    IN  [translation |-> <<bx.x, by.x, bz.x>>, velocity |-> <<bx.v, by.v, bz.v>>]

\* --------------------------------------------------------------- WaveField
\* WaveField::idx
idx(x, y, w) == y * w + x

Cells(w, h) == 0 .. (w * h - 1)

\* WaveField::sample
sample(cur, w, h, px, py) ==
    LET grid_x == AsUsize(GridCoord2(px, w))
        grid_y == AsUsize(GridCoord2(py, h))
    IN  IF grid_x < w /\ grid_y < h THEN cur[idx(grid_x, grid_y, w)] ELSE 0

\* WaveField::clear, for one of its two buffers: `fill(0.0)`
clear_Keep(buf) == buf

clear_Ones(buf) == [i \in DOMAIN buf |-> SCALE]

clear(buf) == [i \in DOMAIN buf |-> 0]

\* WaveField::clear_obstacles
clear_obstacles(map) == [i \in DOMAIN map |-> SCALE]

\* `config.paused = !config.paused`
toggle_pause_Reset(config) ==
    [config EXCEPT !.paused = ~@, !.accumulated_time = 0]

toggle_pause(config) == [config EXCEPT !.paused = ~@]

\* `if config.paused { return; }`
paused_Never(config) == FALSE

paused(config) == config.paused

\* ------------------------------------------------------ rasterize_obstacles
ObstacleTypes == {"Reflector", "SingleSlit", "DoubleSlit", "RefractionBlock"}

\* `(extent / GRID_SCALE / 2.0) as i32`
HalfExtent(extent) == extent \div (2 * GRID_SCALE)

center_x(o, w) == AsI32(GridCoord2(o.x, w))

center_y(o, h) == AsI32(GridCoord2(o.y, h))

\* The `continue` of the slit arms: column offset dx is left untouched.
InSlit_None(o, dx) == FALSE

InSlit(o, dx) ==
    LET slit_half == HalfExtent(o.slit_width)
        sep_half == HalfExtent(o.slit_separation)
    IN  CASE o.obstacle_type = "SingleSlit" -> Abs(dx) <= slit_half
          [] o.obstacle_type = "DoubleSlit" ->
                Abs(dx - sep_half) <= slit_half \/ Abs(dx + sep_half) <= slit_half
          [] OTHER -> FALSE

\* The value an obstacle stamps: 0.0, or 1/refractive_index.
StampValue_Opaque(o) == 0

StampValue(o) ==
    IF o.obstacle_type = "RefractionBlock" THEN FDiv(SCALE, o.refractive_index) ELSE 0

\* One iteration of the loop over obstacles: the dy/dx loops of its match arm.
StampObstacle_KeepFirst(map, o, w, h) ==
    [i \in DOMAIN map |->
        IF /\ map[i] = SCALE
           /\ Abs((i % w) - center_x(o, w)) <= HalfExtent(o.width)
           /\ Abs((i \div w) - center_y(o, h)) <= HalfExtent(o.height)
           /\ ~InSlit(o, (i % w) - center_x(o, w))
        THEN StampValue(o) ELSE map[i]]

StampObstacle(map, o, w, h) ==
    LET half_w == HalfExtent(o.width)
        half_h == HalfExtent(o.height)
        cx == center_x(o, w)
        cy == center_y(o, h)
        Hit(i) == \E dy \in (-half_h) .. half_h, dx \in (-half_w) .. half_w :
                     /\ ~InSlit(o, dx)
                     /\ cx + dx >= 0 /\ cx + dx < w
                     /\ cy + dy >= 0 /\ cy + dy < h
                     /\ i = idx(cx + dx, cy + dy, w)
    IN  [i \in DOMAIN map |-> IF Hit(i) THEN StampValue(o) ELSE map[i]]

RECURSIVE StampFrom(_, _, _, _, _)
StampFrom(map, obs, k, w, h) ==
    IF k > Len(obs) THEN map
    ELSE StampFrom(StampObstacle(map, obs[k], w, h), obs, k + 1, w, h)

\* rasterize_obstacles: the obstacle_map it leaves.
rasterize_NoClear(map, obs, w, h) == StampFrom(map, obs, 1, w, h)

rasterize(map, obs, w, h) == StampFrom(clear_obstacles(map), obs, 1, w, h)

\* ----------------------------------------------------- update_moving_sources
\* One axis of a moving source after dt: it advances and, once beyond the
\* grid's half-extent `bounds`, re-enters at the opposite `bounds - 10.0`.
MoveAxis(x, v, dt, n) ==
    LET bounds == (n * GRID_SCALE) \div 2
        moved == x + v * dt
    IN  IF Abs(moved) > bounds
        THEN -(IF moved >= 0 THEN 1 ELSE -1) * (bounds - WRAP_MARGIN)
        ELSE moved

\* ------------------------------------------------------- apply_wave_sources
SourceTypes == {"Point", "Line", "PhasedArray", "Moving"}

Waveforms == {"Sine", "Square", "Pulse"}

\* `value` of apply_wave_sources at accumulated time t.
WaveValue(src, t) ==
    LET angle == src.frequency * t + src.phase
    IN  CASE src.waveform = "Sine" -> FMul(src.amplitude, Sin(angle))
          [] src.waveform = "Square" -> FMul(src.amplitude, signum(Sin(angle)))
          [] src.waveform = "Pulse" ->
                IF (angle % TURN) * 10 < TURN THEN src.amplitude ELSE 0

\* `phased_value` of element i of a phased array.
PhasedValue(src, t, i) ==
    FMul(src.amplitude, Sin(src.frequency * t + src.phase + i))

\* One iteration of the loop over sources for an enabled source.
StampSource_Accumulate(cur, src, w, h, t) ==
    LET grid_x == AsUsize(GridCoord2(src.x, w))
        grid_y == AsUsize(GridCoord2(src.y, h))
    IN  IF src.source_type \in {"Point", "Moving"} /\ grid_x < w /\ grid_y < h
        THEN [cur EXCEPT ![idx(grid_x, grid_y, w)] = @ + WaveValue(src, t)]
        ELSE cur

StampSource(cur, src, w, h, t) ==
    LET grid_x == AsUsize(GridCoord2(src.x, w))
        grid_y == AsUsize(GridCoord2(src.y, h))
        value == WaveValue(src, t)
    IN  CASE src.source_type \in {"Point", "Moving"} ->
                IF grid_x < w /\ grid_y < h
                THEN [cur EXCEPT ![idx(grid_x, grid_y, w)] = value]
                ELSE cur
          [] src.source_type = "Line" ->
                LET first == saturating_sub(grid_x, LINE_HALF_LEN)
                    Hit(i) == \E dx \in 0 .. (LINE_HALF_LEN * 2 - 1) :
                                 /\ first + dx < w /\ grid_y < h
                                 /\ i = idx(first + dx, grid_y, w)
                IN  [i \in DOMAIN cur |-> IF Hit(i) THEN value ELSE cur[i]]
          [] src.source_type = "PhasedArray" ->
                LET total_w == (src.count - 1) * ARRAY_SPACING
                    start_x == saturating_sub(grid_x, total_w \div 2)
                    Elems(i) == {k \in 0 .. (src.count - 1) :
                                    /\ start_x + k * ARRAY_SPACING < w /\ grid_y < h
                                    /\ i = idx(start_x + k * ARRAY_SPACING, grid_y, w)}
                IN  [i \in DOMAIN cur |->
                        IF Elems(i) # {}
                        THEN PhasedValue(src, t, CHOOSE k \in Elems(i) : TRUE)
                        ELSE cur[i]]

RECURSIVE InjectFrom_All(_, _, _, _, _, _)
InjectFrom_All(cur, srcs, k, w, h, t) ==
    IF k > Len(srcs) THEN cur
    ELSE InjectFrom_All(StampSource(cur, srcs[k], w, h, t), srcs, k + 1, w, h, t)

RECURSIVE InjectFrom(_, _, _, _, _, _)
InjectFrom(cur, srcs, k, w, h, t) ==
    IF k > Len(srcs) THEN cur
    ELSE InjectFrom(IF srcs[k].enabled THEN StampSource(cur, srcs[k], w, h, t) ELSE cur,
                    srcs, k + 1, w, h, t)

\* --------------------------------------------------------- update_wave_field
\* The interior update of one cell: blocked, or the clamped wave equation.
StepCell_NoClamp(cur, prev, obs, i, w, c2, damping) ==
    IF obs[i] = 0 THEN 0
    ELSE LET laplacian == cur[i - 1] + cur[i + 1] + cur[i - w] + cur[i + w] - 4 * cur[i]
             effective_c2 == FMul(FMul(c2, obs[i]), obs[i])
         IN  FMul(damping, 2 * cur[i] - prev[i] + FMul(effective_c2, laplacian))

StepCell_NoBlock(cur, prev, obs, i, w, c2, damping) ==
    LET laplacian == cur[i - 1] + cur[i + 1] + cur[i - w] + cur[i + w] - 4 * cur[i]
        effective_c2 == FMul(FMul(c2, obs[i]), obs[i])
    IN  clamp(FMul(damping, 2 * cur[i] - prev[i] + FMul(effective_c2, laplacian)),
              -CLAMP_LIMIT * SCALE, CLAMP_LIMIT * SCALE)

StepCell(cur, prev, obs, i, w, c2, damping) ==
    IF obs[i] = 0 THEN 0
    ELSE LET laplacian == cur[i - 1] + cur[i + 1] + cur[i - w] + cur[i + w] - 4 * cur[i]
             effective_c2 == FMul(FMul(c2, obs[i]), obs[i])
         IN  clamp(FMul(damping, 2 * cur[i] - prev[i] + FMul(effective_c2, laplacian)),
                   -CLAMP_LIMIT * SCALE, CLAMP_LIMIT * SCALE)

\* `*= 0.5`, n times
RECURSIVE Halve(_, _)
Halve(v, n) == IF n = 0 THEN v ELSE Halve(FMul(v, SCALE \div 2), n - 1)

\* The cells that `for y in 1..height - 1 { for x in 1..width - 1 {` visits.
Interior(w, h) ==
    {i \in Cells(w, h) : /\ i % w >= 1 /\ i % w < w - 1
                         /\ i \div w >= 1 /\ i \div w < h - 1}

\* `let c2 = (c * 0.4).powi(2);`
C2(c) == FMul(FMul(c, (4 * SCALE) \div 10), FMul(c, (4 * SCALE) \div 10))

\* The amplitudes a cell's update reads: `wave_field.current[..]`, whatever
\* the cells in done, already computed by this step, hold in `next`.
StepSource_InPlace(cur, nxt, done) ==
    [i \in DOMAIN cur |-> IF i \in done THEN nxt[i] ELSE cur[i]]

StepSource(cur, nxt, done) == cur

\* The two absorbing-boundary loops over the finished `next`.
AbsorbEdges(nxt, w, h) ==
    LET edges(i) == (IF i \div w = 0 THEN 1 ELSE 0) + (IF i \div w = h - 1 THEN 1 ELSE 0)
                    + (IF i % w = 0 THEN 1 ELSE 0) + (IF i % w = w - 1 THEN 1 ELSE 0)
    IN  [i \in Cells(w, h) |-> Halve(nxt[i], edges(i))]

\* The `next` buffer of update_wave_field.
NextBuffer_Interior(cur, prev, obs, w, h, c, damping) ==
    [i \in {j \in Cells(w, h) : /\ j % w >= 1 /\ j % w < w - 1
                                 /\ j \div w >= 1 /\ j \div w < h - 1} |->
        StepCell(cur, prev, obs, i, w, FMul(FMul(c, (4 * SCALE) \div 10),
                                            FMul(c, (4 * SCALE) \div 10)), damping)]

NextBuffer_EdgeCopy(cur, prev, obs, w, h, c, damping) ==
    AbsorbEdges([i \in Cells(w, h) |->
                    IF i \in Interior(w, h)
                    THEN StepCell(cur, prev, obs, i, w, C2(c), damping)
                    ELSE cur[i]], w, h)

NextBuffer(cur, prev, obs, w, h, c, damping) ==
    LET c04 == FMul(c, (4 * SCALE) \div 10)
        c2 == FMul(c04, c04)
        X(i) == i % w
        Y(i) == i \div w
        Inside(i) == X(i) >= 1 /\ X(i) < w - 1 /\ Y(i) >= 1 /\ Y(i) < h - 1
        raw == [i \in Cells(w, h) |->
                   IF Inside(i) THEN StepCell(cur, prev, obs, i, w, c2, damping) ELSE 0]
        edges(i) == (IF Y(i) = 0 THEN 1 ELSE 0) + (IF Y(i) = h - 1 THEN 1 ELSE 0)
                    + (IF X(i) = 0 THEN 1 ELSE 0) + (IF X(i) = w - 1 THEN 1 ELSE 0)
    IN  [i \in Cells(w, h) |-> Halve(raw[i], edges(i))]

\* `let old_current = std::mem::replace(&mut wave_field.current, next);
\*  wave_field.previous = old_current;`
replace_Alias(cur, nxt) == [current |-> nxt, previous |-> nxt]

replace(cur, nxt) == [current |-> nxt, previous |-> cur]

\* -------------------------------------------------------------- update_probes
\* `history.push(value); if history.len() > MAX_PROBE_HISTORY { history.remove(0) }`
push_history_SwapRemove(hist, value) ==
    LET h1 == Append(hist, value)
    IN  IF Len(h1) > MAX_PROBE_HISTORY
        THEN <<value>> \o SubSeq(h1, 2, Len(h1) - 1)
        ELSE h1

push_history(hist, value) ==
    LET h1 == Append(hist, value)
    IN  IF Len(h1) > MAX_PROBE_HISTORY THEN Tail(h1) ELSE h1

\* ----------------------------------------------------- frame bookkeeping
BS_SYSTEMS == {"emit_particles", "update_particles", "render_ui"}

\* A system of the Update schedule may start: it has not run in this frame and
\* no system holding the pool (an emit loop, an update loop) is in progress.
BsMayRun(sys) ==
    /\ run.app = "binary_spiral"
    /\ bs_frame < run.frames
    /\ emit_left = 0
    /\ ~pool_pass.active
    /\ sys \notin bs_ran

\* The system has returned; the frame ends when all of them have.
BsDone(sys) ==
    IF bs_ran \cup {sys} = BS_SYSTEMS
    THEN /\ bs_ran' = {}
         /\ bs_frame' = bs_frame + 1
    ELSE /\ bs_ran' = bs_ran \cup {sys}
         /\ bs_frame' = bs_frame

\* The Particle System's Update schedule (update_stats writes no state kept
\* here).
PS_SYSTEMS == {"update_particles", "render_ui"}

PsMayRun(sys) ==
    /\ run.app = "particle_system"
    /\ ps_frame < run.frames
    /\ ~ps_pass.active
    /\ sys \notin ps_ran

PsDone(sys) ==
    IF ps_ran \cup {sys} = PS_SYSTEMS
    THEN /\ ps_ran' = {}
         /\ ps_frame' = ps_frame + 1
    ELSE /\ ps_ran' = ps_ran \cup {sys}
         /\ ps_frame' = ps_frame

\* The same for the Ripple Tank schedule; rt_order lists the frame's systems
\* in the order they ran.
RT_SYSTEMS == {"rasterize_obstacles", "apply_wave_sources", "update_wave_field",
               "update_probes"}

\* The systems that edit and rasterize the obstacles, and the point at the
\* end of the schedule where the queued Commands are applied.
EDIT_SYSTEMS == {"handle_mouse_input", "rasterize_obstacles", "render_inspector_ui",
                 "apply_deferred"}

\* The keyboard and the inspector with the systems that write the grid.
CONTROL_SYSTEMS == {"handle_keyboard_input", "rasterize_obstacles",
                    "apply_wave_sources", "update_wave_field",
                    "render_inspector_ui", "apply_deferred"}

\* The pointer and the rasterizer alone.
DRAG_SYSTEMS == {"handle_mouse_input", "rasterize_obstacles"}

\* The keyboard and the moving sources with the injector and the stepper.
CLOCK_SYSTEMS == {"handle_keyboard_input", "update_moving_sources",
                  "apply_wave_sources", "update_wave_field"}

\* The injector and the stepper alone.
INJECT_SYSTEMS == {"apply_wave_sources", "update_wave_field"}

\* The systems that write the grid, the stepper followed cell by cell.
STEP_SYSTEMS == {"rasterize_obstacles", "apply_wave_sources", "update_wave_field"}

FrameLimit ==
    CASE rt_systems \in {CONTROL_SYSTEMS, CLOCK_SYSTEMS} -> MaxControlFrames
      [] rt_systems = STEP_SYSTEMS -> MaxStepFrames
      [] OTHER -> MaxWaveFrames

RtMayRun(sys) ==
    /\ rt_frame < FrameLimit
    /\ ~step_pass.active
    /\ sys \in rt_systems \ rt_ran
    /\ sys = "apply_deferred" => rt_ran = rt_systems \ {"apply_deferred"}

RtDone(sys) ==
    /\ rt_order' = (IF rt_ran = {} THEN <<sys>> ELSE Append(rt_order, sys))
    /\ IF rt_ran \cup {sys} = rt_systems
       THEN /\ rt_ran' = {}
            /\ rt_frame' = rt_frame + 1
       ELSE /\ rt_ran' = rt_ran \cup {sys}
            /\ rt_frame' = rt_frame

Op(name) == [op |-> name, args |-> NoArgs, was_active |-> FALSE]

\* ------------------------------------------------------------------ Init
\* BinarySpiralConfig::default and ParticlePool::default.
PoolState(life) ==
    /\ particles = [s \in Slots |-> ParticleDefault]
    /\ next_index = 0
    /\ bs_config = [paused |-> FALSE, emission_rate |-> 1, particle_life |-> life]
    /\ bs_ran = {}
    /\ bs_frame = 0
    /\ emit_left = 0
    /\ emitted = 0
    /\ em_tag = [s \in Slots |-> 0]
    /\ em_life = [s \in Slots |-> 0]
    /\ em_age = [s \in Slots |-> 0]

PoolInit == \E life \in 0 .. MaxLife : PoolState(life)

\* No loop is in progress; the Particle System is not running.
NoPass == [active |-> FALSE, todo |-> {}]

Run(app, frames) ==
    /\ run = [app |-> app, frames |-> frames]
    /\ next = <<>>
    /\ step_pass = NoPass
    /\ pool_pass = NoPass
    /\ pass_start = <<>>

NoBodyPass == [active |-> FALSE, todo |-> {}, dt |-> 0, gravity |-> Vec3Zero,
               bounds |-> 0]

Idle(app, frames) ==
    /\ Run(app, frames)
    /\ ps_particles = <<>>
    /\ ps_config = [gravity |-> Vec3Zero, bounds |-> 0, speed_multiplier |-> 0,
                    paused |-> FALSE]
    /\ ps_ran = {}
    /\ ps_frame = 0
    /\ ps_pass = NoBodyPass

\* The gravity slider's settings the model draws: 0.0 and 9.8 m/s^2.
Gravities == {0, (98 * SCALE) \div 10}

\* A particle of setup_particle_scene: a position in [-bounds, bounds) x
\* [0, 2*bounds) x [-bounds, bounds) and a velocity in [-10, 10) x [-5, 15) x
\* [-10, 10), here fixed by the particle's number k.
Spawned(k, bounds) ==
    [translation |-> <<((3 * k * SCALE) % (2 * bounds)) - bounds,
                       (7 * k * SCALE) % (2 * bounds),
                       ((4 * k * SCALE) % (2 * bounds)) - bounds>>,
     velocity |-> <<((6 * k) % 20) * SCALE - 10 * SCALE,
                    ((9 * k) % 20) * SCALE - 5 * SCALE,
                    ((7 * k) % 20) * SCALE - 10 * SCALE>>]

\* ParticleConfig with the bounds slider at its minimum (10.0) and
\* PARTICLE_COUNT particles spawned.
PsState ==
    /\ ps_config = [gravity |-> <<0, -((98 * SCALE) \div 10), 0>>,
                    bounds |-> 10 * SCALE, speed_multiplier |-> SCALE,
                    paused |-> FALSE]
    /\ ps_particles = [k \in 1 .. PARTICLE_COUNT |-> Spawned(k, 10 * SCALE)]
    /\ ps_ran = {}
    /\ ps_frame = 0
    /\ ps_pass = NoBodyPass

\* The frame deltas of the particle system: half a second.
PsDts == {SCALE \div 2}

\* WaveField::default and RippleTankConfig::default on a w x h grid, with the
\* scene's entities and the parameters set in the inspector.
WaveState(w, h, scene) ==
    /\ width = w
    /\ height = h
    /\ current = [i \in Cells(w, h) |-> 0]
    /\ previous = [i \in Cells(w, h) |-> 0]
    /\ obstacle_map = [i \in Cells(w, h) |-> SCALE]
    /\ rt_config = [wave_speed |-> scene.wave_speed, damping |-> scene.damping,
                    time_scale |-> scene.time_scale, paused |-> FALSE,
                    accumulated_time |-> 0]
    /\ sources = scene.sources
    /\ obstacles = scene.obstacles
    /\ probes = scene.probes
    /\ rt_ran = {}
    /\ rt_frame = 0
    /\ rt_systems = scene.systems
    /\ ui_state = [selected_entity |-> scene.selected, dragging |-> 0,
                   drag_offset |-> <<0, 0>>]
    /\ mouse_left = FALSE
    /\ commands = {}
    /\ rt_order = <<>>
    /\ probe_ticks = 0
    /\ after_clear = [phase |-> "none", dirty |-> FALSE]
    /\ raster_log = {}

\* WaveSource::default: a 2 Hz, amplitude 1.0 sine point source.
SourceDefault ==
    [entity |-> 1, x |-> 0, y |-> 0, velocity |-> <<0, 0>>,
     source_type |-> "Point", count |-> 0,
     frequency |-> 4, amplitude |-> SCALE, phase |-> 0, enabled |-> TRUE,
     waveform |-> "Sine"]

\* Obstacle::default, with extents that fit the scaled grid.
ObstacleDefault ==
    [entity |-> 3, x |-> 0, y |-> 0, obstacle_type |-> "Reflector",
     width |-> 0, height |-> 0, slit_width |-> 0, slit_separation |-> 0,
     refractive_index |-> (3 * SCALE) \div 2]

\* Probe::new at a world position.
ProbeAt(px, py) == [x |-> px, y |-> py, history |-> <<>>]

\* The default scene of setup_scene alone: one point source at the origin.
DefaultScene ==
    [sources |-> <<SourceDefault>>, obstacles |-> <<>>, probes |-> <<>>,
     wave_speed |-> SCALE, damping |-> 995, time_scale |-> 1,
     systems |-> RT_SYSTEMS, selected |-> 0]

\* Scenes built with the toolbox and the inspector: a full-amplitude source
\* that sits on a one-cell reflector, a square-wave source on the left edge
\* column, a probe inside the grid and a probe dragged left of the grid; with
\* the default medium, with wave speed 5.0 and no damping, or with wave speed
\* 0.1 and damping 0.9 (the ends of the inspector's sliders).
WaveScenes ==
    LET srcs == << [SourceDefault EXCEPT !.x = World(1, GRID_WIDTH),
                                         !.y = World(1, GRID_HEIGHT),
                                         !.amplitude = 2 * SCALE, !.phase = 8],
                   [SourceDefault EXCEPT !.entity = 2,
                                         !.x = World(0, GRID_WIDTH),
                                         !.y = World(2, GRID_HEIGHT),
                                         !.waveform = "Square"] >>
        obs == << [ObstacleDefault EXCEPT !.x = World(1, GRID_WIDTH),
                                          !.y = World(1, GRID_HEIGHT)] >>
        prs == << ProbeAt(World(2, GRID_WIDTH), World(1, GRID_HEIGHT)),
                  ProbeAt(World(-2, GRID_WIDTH), World(2, GRID_HEIGHT)) >>
    IN  { [sources |-> srcs, obstacles |-> obs, probes |-> prs,
           wave_speed |-> SCALE, damping |-> 995, time_scale |-> 1,
           systems |-> RT_SYSTEMS, selected |-> 0],
          [sources |-> srcs, obstacles |-> obs, probes |-> prs,
           wave_speed |-> 5 * SCALE, damping |-> SCALE, time_scale |-> 2,
           systems |-> RT_SYSTEMS, selected |-> 0],
          [sources |-> srcs, obstacles |-> obs, probes |-> prs,
           wave_speed |-> SCALE \div 10, damping |-> (9 * SCALE) \div 10,
           time_scale |-> 1, systems |-> RT_SYSTEMS, selected |-> 0] }

WaveInit == \E scene \in WaveScenes : WaveState(GRID_WIDTH, GRID_HEIGHT, scene)

\* Scenes whose default source was deleted and that hold obstacles placed with
\* the toolbox: a one-cell reflector under a three-cell refraction block
\* (they overlap in one cell), a single slit above a double slit, or a wide
\* refraction block under a single slit and a double slit that lie across it.
RasterScenes ==
    LET reflector == [ObstacleDefault EXCEPT !.entity = 1,
                                             !.x = World(1, GRID_WIDTH),
                                             !.y = World(1, GRID_HEIGHT)]
        block == [ObstacleDefault EXCEPT !.entity = 2,
                                         !.obstacle_type = "RefractionBlock",
                                         !.x = World(2, GRID_WIDTH),
                                         !.y = World(1, GRID_HEIGHT),
                                         !.width = 2 * GRID_SCALE]
        single == [ObstacleDefault EXCEPT !.entity = 1,
                                          !.obstacle_type = "SingleSlit",
                                          !.x = World(2, GRID_WIDTH),
                                          !.y = World(3, GRID_HEIGHT),
                                          !.width = 4 * GRID_SCALE]
        double == [ObstacleDefault EXCEPT !.entity = 2,
                                          !.obstacle_type = "DoubleSlit",
                                          !.x = World(2, GRID_WIDTH),
                                          !.y = World(0, GRID_HEIGHT),
                                          !.width = 4 * GRID_SCALE,
                                          !.slit_separation = 2 * GRID_SCALE]
        under == [block EXCEPT !.entity = 3, !.y = World(2, GRID_HEIGHT),
                               !.width = 4 * GRID_SCALE, !.height = 2 * GRID_SCALE]
        gap == [single EXCEPT !.y = World(2, GRID_HEIGHT),
                              !.slit_width = 2 * GRID_SCALE]
        gaps == [double EXCEPT !.y = World(1, GRID_HEIGHT),
                               !.slit_separation = 3 * GRID_SCALE]
    IN  { [sources |-> <<>>, obstacles |-> obs, probes |-> <<>>,
           wave_speed |-> SCALE, damping |-> 995, time_scale |-> 1,
           systems |-> EDIT_SYSTEMS, selected |-> 0] :
          obs \in {<<reflector, block>>, <<single, double>>, <<under, gap, gaps>>} }

RasterInit == \E scene \in RasterScenes : WaveState(GRID_WIDTH, GRID_HEIGHT, scene)

\* A scene with the keyboard in use: a full-amplitude source, selected in the
\* inspector by an earlier click, beside a reflector and a refraction block;
\* with the default medium or with wave speed 5.0 and no damping.
ControlScenes ==
    LET srcs == << [SourceDefault EXCEPT !.x = World(2, GRID_WIDTH),
                                         !.y = World(1, GRID_HEIGHT),
                                         !.amplitude = 2 * SCALE, !.phase = 8] >>
        obs == << [ObstacleDefault EXCEPT !.x = World(1, GRID_WIDTH),
                                          !.y = World(2, GRID_HEIGHT)],
                  [ObstacleDefault EXCEPT !.entity = 4,
                                          !.obstacle_type = "RefractionBlock",
                                          !.x = World(3, GRID_WIDTH),
                                          !.y = World(1, GRID_HEIGHT)] >>
    IN  { [sources |-> srcs, obstacles |-> obs, probes |-> <<>>,
           wave_speed |-> SCALE, damping |-> 995, time_scale |-> 1,
           systems |-> CONTROL_SYSTEMS, selected |-> 1],
          [sources |-> srcs, obstacles |-> obs, probes |-> <<>>,
           wave_speed |-> 5 * SCALE, damping |-> SCALE, time_scale |-> 2,
           systems |-> CONTROL_SYSTEMS, selected |-> 1] }

ControlInit == \E scene \in ControlScenes : WaveState(GRID_WIDTH, GRID_HEIGHT, scene)

\* Scenes on the wide grid, all on row 1: a five-element phased array at the
\* grid centre, near the left edge or near the right edge; a line source in
\* the right half or near the left edge; a line source with a point source
\* and a phased array placed on top of it.
InjectScenes ==
    LET At(gx) == [SourceDefault EXCEPT !.x = World(gx, WIDE_WIDTH),
                                        !.y = World(1, WIDE_HEIGHT),
                                        !.phase = 8]
        Array(gx) == [At(gx) EXCEPT !.source_type = "PhasedArray", !.count = 5]
        Line(gx) == [At(gx) EXCEPT !.source_type = "Line"]
        Point(gx) == [At(gx) EXCEPT !.entity = 2, !.amplitude = 2 * SCALE]
        Top(gx) == [Array(gx) EXCEPT !.entity = 3, !.waveform = "Square"]
    IN  { [sources |-> srcs, obstacles |-> <<>>, probes |-> <<>>,
           wave_speed |-> SCALE, damping |-> 995, time_scale |-> 1,
           systems |-> INJECT_SYSTEMS, selected |-> 0] :
          srcs \in { <<Array(WIDE_WIDTH \div 2)>>, <<Array(4)>>,
                     <<Array(WIDE_WIDTH - 4)>>,
                     <<Line(WIDE_WIDTH - 10)>>, <<Line(5)>>,
                     <<Line(WIDE_WIDTH - 10), Point(WIDE_WIDTH - 12),
                       Top(WIDE_WIDTH - 4)>> } }

InjectInit == \E scene \in InjectScenes : WaveState(WIDE_WIDTH, WIDE_HEIGHT, scene)

\* Scenes for the stepper followed cell by cell: the control scenes' source,
\* reflector and refraction block, with the default medium or with wave speed
\* 5.0 and no damping.
StepScenes == {[scene EXCEPT !.systems = STEP_SYSTEMS, !.selected = 0] :
                  scene \in ControlScenes}

StepInit == \E scene \in StepScenes : WaveState(GRID_WIDTH, GRID_HEIGHT, scene)

\* A scene with a moving source that crosses the grid one cell per time
\* unit, a point source dragged two cells left of the grid and one dragged
\* right of it; with time scale 1.0 or 2.0.
ClockScenes ==
    LET moving == [SourceDefault EXCEPT !.source_type = "Moving",
                                        !.x = World(1, GRID_WIDTH),
                                        !.y = World(1, GRID_HEIGHT),
                                        !.velocity = <<GRID_SCALE, 0>>,
                                        !.phase = 8]
        left == [SourceDefault EXCEPT !.entity = 2,
                                      !.x = World(-2, GRID_WIDTH),
                                      !.y = World(2, GRID_HEIGHT),
                                      !.amplitude = 2 * SCALE, !.phase = 8]
        right == [SourceDefault EXCEPT !.entity = 3,
                                       !.x = World(GRID_WIDTH + 1, GRID_WIDTH),
                                       !.y = World(1, GRID_HEIGHT),
                                       !.amplitude = 2 * SCALE, !.phase = 8]
    IN  { [sources |-> <<moving, left, right>>, obstacles |-> <<>>, probes |-> <<>>,
           wave_speed |-> SCALE, damping |-> 995, time_scale |-> scale,
           systems |-> CLOCK_SYSTEMS, selected |-> 0] : scale \in 1 .. 2 }

ClockInit == \E scene \in ClockScenes : WaveState(GRID_WIDTH, GRID_HEIGHT, scene)

\* Scenes whose default source was deleted and that hold a single obstacle
\* five cells wide and three high: a refraction block that sticks out of the
\* grid on the left, or a reflector that sticks out on the right and at the
\* top.
DragScenes ==
    LET block == [ObstacleDefault EXCEPT !.entity = 1,
                                         !.obstacle_type = "RefractionBlock",
                                         !.x = World(1, GRID_WIDTH),
                                         !.y = World(1, GRID_HEIGHT),
                                         !.width = 4 * GRID_SCALE,
                                         !.height = 2 * GRID_SCALE]
        reflector == [block EXCEPT !.obstacle_type = "Reflector",
                                   !.x = World(GRID_WIDTH - 2, GRID_WIDTH),
                                   !.y = World(GRID_HEIGHT - 1, GRID_HEIGHT)]
    IN  { [sources |-> <<>>, obstacles |-> <<o>>, probes |-> <<>>,
           wave_speed |-> SCALE, damping |-> 995, time_scale |-> 1,
           systems |-> DRAG_SYSTEMS, selected |-> 0] : o \in {block, reflector} }

DragInit == \E scene \in DragScenes : WaveState(GRID_WIDTH, GRID_HEIGHT, scene)

\* The cursor positions (in world coordinates) the model draws.
CursorPoints ==
    { <<World(1, GRID_WIDTH), World(1, GRID_HEIGHT)>>,
      <<World(2, GRID_WIDTH), World(2, GRID_HEIGHT)>> }

\* The frame deltas (time.delta_seconds()) the model draws.
Dts == {1}

\* --------------------------------------------------------------- actions
\* emit_particles, up to the first pool.emit: the paused early return, or the
\* loops `for source in sources { for _ in 0..emission_rate { ... } }` begin.
emit_particles ==
    /\ BsMayRun("emit_particles")
    /\ IF bs_config.paused \/ NUM_SOURCES * bs_config.emission_rate = 0
       THEN /\ BsDone("emit_particles")
            /\ emit_left' = 0
       ELSE /\ emit_left' = NUM_SOURCES * bs_config.emission_rate
            /\ UNCHANGED <<bs_ran, bs_frame>>
    /\ last' = Op("emit_particles")
    /\ UNCHANGED waveVars
    /\ UNCHANGED <<stepVars, psVars, passVars, run>>
    /\ UNCHANGED <<particles, next_index, bs_config, emitted, em_tag, em_life, em_age>>

\* One iteration of emit_particles' inner loop: one pool.emit call.
emit_call ==
    /\ emit_left > 0
    /\ \E a \in EmitArgs :
          LET life == bs_config.particle_life IN
          /\ particles' = emit(particles, next_index, a.position, a.velocity, a.color, life)
          /\ next_index' = emit_next(next_index)
          /\ emitted' = emitted + 1
          /\ em_tag' = [em_tag EXCEPT ![next_index] = emitted + 1]
          /\ em_life' = [em_life EXCEPT ![next_index] = life]
          /\ em_age' = [em_age EXCEPT ![next_index] = 0]
          /\ last' = [op |-> "emit",
                      args |-> [position |-> a.position, velocity |-> a.velocity,
                                color |-> a.color, life |-> life],
                      was_active |-> particles[next_index].active]
    /\ emit_left' = emit_left - 1
    /\ IF emit_left = 1
       THEN BsDone("emit_particles")
       ELSE UNCHANGED <<bs_ran, bs_frame>>
    /\ UNCHANGED bs_config
    /\ UNCHANGED waveVars
    /\ UNCHANGED <<stepVars, psVars, passVars, run>>

update_particles ==
    /\ BsMayRun("update_particles")
    /\ IF bs_config.paused
       THEN UNCHANGED <<particles, em_age>>
       ELSE /\ particles' = [s \in DOMAIN particles |-> update_one(particles[s])]
            /\ em_age' = [s \in Slots |-> em_age[s] + 1]
    /\ BsDone("update_particles")
    /\ last' = Op("update_particles")
    /\ UNCHANGED waveVars
    /\ UNCHANGED <<stepVars, psVars, passVars, run>>
    /\ UNCHANGED <<next_index, bs_config, emit_left, emitted, em_tag, em_life>>

\* render_ui: the Play/Pause button and the emission-rate slider.
render_ui ==
    /\ BsMayRun("render_ui")
    /\ \E clicked \in BOOLEAN, rate \in 1 .. MaxRate :
          bs_config' = [bs_config EXCEPT
                          !.paused = IF clicked THEN ~bs_config.paused ELSE bs_config.paused,
                          !.emission_rate = rate]
    /\ BsDone("render_ui")
    /\ last' = Op("render_ui")
    /\ UNCHANGED waveVars
    /\ UNCHANGED <<stepVars, psVars, passVars, run>>
    /\ UNCHANGED <<particles, next_index, emit_left, emitted, em_tag, em_life, em_age>>

\* The pool's update_particles followed slot by slot.  Up to the loop: the
\* paused return, or `for p in pool.particles.iter_mut()` begins.
update_particles_begin ==
    /\ BsMayRun("update_particles")
    /\ IF bs_config.paused
       THEN /\ BsDone("update_particles")
            /\ UNCHANGED <<pool_pass, pass_start>>
       ELSE /\ pool_pass' = [active |-> TRUE, todo |-> Slots]
            /\ pass_start' = particles
            /\ UNCHANGED <<bs_ran, bs_frame>>
    /\ last' = Op("update_particles_begin")
    /\ UNCHANGED <<particles, next_index, bs_config, emit_left, emitted, em_tag,
                   em_life, em_age>>
    /\ UNCHANGED waveVars
    /\ UNCHANGED <<stepVars, psVars, run>>

\* One iteration of the loop, for any slot not yet visited: the code visits
\* the slots in index order, a parallel iterator in any order.
update_particle ==
    /\ pool_pass.active
    /\ \E slot \in pool_pass.todo :
          /\ particles' = [particles EXCEPT ![slot] = update_one(@)]
          /\ em_age' = [em_age EXCEPT ![slot] = @ + 1]
          /\ IF pool_pass.todo = {slot}
             THEN /\ pool_pass' = NoPass
                  /\ BsDone("update_particles")
             ELSE /\ pool_pass' = [pool_pass EXCEPT !.todo = @ \ {slot}]
                  /\ UNCHANGED <<bs_ran, bs_frame>>
    /\ last' = Op("update_particle")
    /\ UNCHANGED <<next_index, bs_config, emit_left, emitted, em_tag, em_life,
                   pass_start>>
    /\ UNCHANGED waveVars
    /\ UNCHANGED <<stepVars, psVars, run>>

\* ------------------------------------------------ Particle System systems
\* particle_system.rs update_particles, up to the parallel pass: the paused
\* return, or dt, bounds and gravity are read and par_iter_mut begins.
ps_update_particles ==
    /\ PsMayRun("update_particles")
    /\ IF ps_config.paused \/ ps_particles = <<>>
       THEN /\ PsDone("update_particles")
            /\ UNCHANGED <<ps_pass, pass_start>>
       ELSE \E delta \in PsDts :
               /\ ps_pass' = [active |-> TRUE, todo |-> DOMAIN ps_particles,
                              dt |-> FMul(delta, ps_config.speed_multiplier),
                              gravity |-> ps_config.gravity,
                              bounds |-> ps_config.bounds]
               /\ pass_start' = ps_particles
               /\ UNCHANGED <<ps_ran, ps_frame>>
    /\ last' = Op("ps_update_particles")
    /\ UNCHANGED <<ps_particles, ps_config, pool_pass, run>>
    /\ UNCHANGED poolVars
    /\ UNCHANGED waveVars
    /\ UNCHANGED stepVars

\* The closure runs on one element, any of those not yet visited.
ps_update_particle ==
    /\ ps_pass.active
    /\ \E e \in ps_pass.todo :
          /\ ps_particles' = [ps_particles EXCEPT ![e] =
                                 update_body(ps_particles, e, ps_pass.dt,
                                             ps_pass.gravity, ps_pass.bounds)]
          /\ IF ps_pass.todo = {e}
             THEN /\ ps_pass' = [ps_pass EXCEPT !.active = FALSE, !.todo = {}]
                  /\ PsDone("update_particles")
             ELSE /\ ps_pass' = [ps_pass EXCEPT !.todo = @ \ {e}]
                  /\ UNCHANGED <<ps_ran, ps_frame>>
    /\ last' = Op("ps_update_particle")
    /\ UNCHANGED <<ps_config, pool_pass, pass_start, run>>
    /\ UNCHANGED poolVars
    /\ UNCHANGED waveVars
    /\ UNCHANGED stepVars

\* particle_system.rs render_ui: the Play/Pause button and the gravity slider.
ps_render_ui ==
    /\ PsMayRun("render_ui")
    /\ \E clicked \in BOOLEAN, gravity_y \in Gravities :
          ps_config' = [ps_config EXCEPT
                          !.paused = IF clicked THEN ~ps_config.paused
                                     ELSE ps_config.paused,
                          !.gravity = <<@[1], -gravity_y, @[3]>>]
    /\ PsDone("render_ui")
    /\ last' = Op("ps_render_ui")
    /\ UNCHANGED <<ps_particles, ps_pass, pool_pass, pass_start, run>>
    /\ UNCHANGED poolVars
    /\ UNCHANGED waveVars
    /\ UNCHANGED stepVars

\* ------------------------------------------------ Ripple Tank systems
rasterize_obstacles ==
    /\ RtMayRun("rasterize_obstacles")
    /\ obstacle_map' = rasterize(obstacle_map, obstacles, width, height)
    /\ raster_log' = raster_log \cup {<<obstacle_map, obstacles, obstacle_map'>>}
    /\ RtDone("rasterize_obstacles")
    /\ last' = Op("rasterize_obstacles")
    /\ UNCHANGED <<current, previous, width, height, rt_config, sceneVars, probe_ticks,
                   after_clear>>
    /\ UNCHANGED editVars
    /\ UNCHANGED poolVars
    /\ UNCHANGED <<stepVars, psVars, passVars, run>>

apply_wave_sources ==
    /\ RtMayRun("apply_wave_sources")
    /\ IF paused(rt_config)
       THEN UNCHANGED <<current, after_clear>>
       ELSE /\ current' = InjectFrom(current, sources, 1, width, height,
                                     rt_config.accumulated_time)
            /\ after_clear' = IF \E k \in DOMAIN sources : sources[k].enabled
                              THEN [after_clear EXCEPT !.phase = "none"]
                              ELSE after_clear
    /\ RtDone("apply_wave_sources")
    /\ last' = Op("apply_wave_sources")
    /\ UNCHANGED <<previous, obstacle_map, width, height, rt_config, sceneVars,
                   probe_ticks, raster_log>>
    /\ UNCHANGED editVars
    /\ UNCHANGED poolVars
    /\ UNCHANGED <<stepVars, psVars, passVars, run>>

update_wave_field ==
    /\ RtMayRun("update_wave_field")
    /\ IF paused(rt_config)
       THEN UNCHANGED <<current, previous, rt_config, after_clear>>
       ELSE \E delta \in Dts :
               /\ after_clear' = [after_clear EXCEPT !.phase =
                                     IF @ = "clean" THEN "stepped" ELSE "none"]
               /\ rt_config' = [rt_config EXCEPT !.accumulated_time =
                                   @ + delta * rt_config.time_scale]
               /\ LET rotated == replace(current,
                                         NextBuffer(current, previous, obstacle_map,
                                                    width, height, rt_config.wave_speed,
                                                    rt_config.damping))
                  IN  /\ current' = rotated.current
                      /\ previous' = rotated.previous
    /\ RtDone("update_wave_field")
    /\ last' = Op("update_wave_field")
    /\ UNCHANGED <<obstacle_map, width, height, sceneVars, probe_ticks, raster_log>>
    /\ UNCHANGED editVars
    /\ UNCHANGED poolVars
    /\ UNCHANGED <<stepVars, psVars, passVars, run>>

\* update_wave_field followed cell by cell.  Up to the loops: the paused
\* return, or the clock advances and `next` is allocated.
update_wave_field_begin ==
    /\ RtMayRun("update_wave_field")
    /\ IF paused(rt_config)
       THEN /\ RtDone("update_wave_field")
            /\ UNCHANGED <<rt_config, after_clear, next, step_pass>>
       ELSE \E delta \in Dts :
               /\ after_clear' = [after_clear EXCEPT !.phase =
                                     IF @ = "clean" THEN "stepped" ELSE "none"]
               /\ rt_config' = [rt_config EXCEPT !.accumulated_time =
                                   @ + delta * rt_config.time_scale]
               /\ next' = [i \in Cells(width, height) |-> 0]
               /\ step_pass' = [active |-> TRUE, todo |-> Interior(width, height)]
               /\ UNCHANGED <<rt_ran, rt_frame, rt_order>>
    /\ last' = Op("update_wave_field_begin")
    /\ UNCHANGED <<fieldVars, sceneVars, probe_ticks, raster_log>>
    /\ UNCHANGED editVars
    /\ UNCHANGED poolVars
    /\ UNCHANGED <<psVars, passVars, run>>

\* One iteration of the loops over the interior, for any cell not yet done:
\* the code visits the cells row by row, a row-parallel stepper in any
\* interleaving of its rows.
update_wave_field_cell ==
    /\ step_pass.active
    /\ \E i \in step_pass.todo :
          /\ next' = [next EXCEPT ![i] =
                         StepCell(StepSource(current, next,
                                             Interior(width, height) \ step_pass.todo),
                                  previous, obstacle_map, i, width,
                                  C2(rt_config.wave_speed), rt_config.damping)]
          /\ step_pass' = [step_pass EXCEPT !.todo = @ \ {i}]
          /\ last' = Op("update_wave_field_cell")
    /\ UNCHANGED <<fieldVars, rt_config, sceneVars, rt_ran, rt_frame, rt_order,
                   probe_ticks, after_clear, raster_log>>
    /\ UNCHANGED editVars
    /\ UNCHANGED poolVars
    /\ UNCHANGED <<psVars, passVars, run>>

\* After the loops: the absorbing boundaries and the rotation of the buffers.
update_wave_field_end ==
    /\ step_pass.active
    /\ step_pass.todo = {}
    /\ LET rotated == replace(current, AbsorbEdges(next, width, height))
       IN  /\ current' = rotated.current
           /\ previous' = rotated.previous
    /\ next' = <<>>
    /\ step_pass' = NoPass
    /\ RtDone("update_wave_field")
    /\ last' = Op("update_wave_field_end")
    /\ UNCHANGED <<obstacle_map, width, height, rt_config, sceneVars, probe_ticks,
                   after_clear, raster_log>>
    /\ UNCHANGED editVars
    /\ UNCHANGED poolVars
    /\ UNCHANGED <<psVars, passVars, run>>

update_moving_sources ==
    /\ RtMayRun("update_moving_sources")
    /\ IF paused(rt_config)
       THEN UNCHANGED sources
       ELSE \E delta \in Dts :
               LET dt == delta * rt_config.time_scale
               IN  sources' =
                      [k \in DOMAIN sources |->
                          IF sources[k].source_type = "Moving"
                          THEN [sources[k] EXCEPT
                                   !.x = MoveAxis(@, sources[k].velocity[1], dt, width),
                                   !.y = MoveAxis(@, sources[k].velocity[2], dt, height)]
                          ELSE sources[k]]
    /\ RtDone("update_moving_sources")
    /\ last' = Op("update_moving_sources")
    /\ UNCHANGED <<fieldVars, rt_config, obstacles, probes, probe_ticks, after_clear,
                   raster_log>>
    /\ UNCHANGED editVars
    /\ UNCHANGED poolVars
    /\ UNCHANGED <<stepVars, psVars, passVars, run>>

update_probes ==
    /\ RtMayRun("update_probes")
    /\ probes' = [k \in DOMAIN probes |->
                    [probes[k] EXCEPT !.history =
                        push_history(@, sample(current, width, height,
                                               probes[k].x, probes[k].y))]]
    /\ probe_ticks' = probe_ticks + 1
    /\ RtDone("update_probes")
    /\ last' = Op("update_probes")
    /\ UNCHANGED <<fieldVars, rt_config, sources, obstacles, after_clear, raster_log>>
    /\ UNCHANGED editVars
    /\ UNCHANGED poolVars
    /\ UNCHANGED <<stepVars, psVars, passVars, run>>

\* ------------------------------------------------------------- the keyboard
\* A cell of either buffer is not 0.0.
Dirty == \E i \in DOMAIN current : current[i] # 0 \/ previous[i] # 0

\* handle_keyboard_input: keys holds the keys just pressed in this frame.
handle_keyboard_input ==
    /\ RtMayRun("handle_keyboard_input")
    /\ \E keys \in SUBSET {"Space", "KeyC"} :
          /\ rt_config' = IF "Space" \in keys
                          THEN toggle_pause(rt_config)
                          ELSE rt_config
          /\ IF "KeyC" \in keys
             THEN /\ current' = clear(current)
                  /\ previous' = clear(previous)
                  /\ after_clear' = [phase |-> "clean", dirty |-> Dirty]
             ELSE UNCHANGED <<current, previous, after_clear>>
          /\ last' = [op |-> "handle_keyboard_input",
                      args |-> [keys |-> keys, dirty |-> Dirty],
                      was_active |-> FALSE]
    /\ RtDone("handle_keyboard_input")
    /\ UNCHANGED <<obstacle_map, width, height, sceneVars, probe_ticks, raster_log>>
    /\ UNCHANGED editVars
    /\ UNCHANGED poolVars
    /\ UNCHANGED <<stepVars, psVars, passVars, run>>

\* ------------------------------------------ editing sources and obstacles
Entities(obs) == {obs[k].entity : k \in DOMAIN obs}

\* `transform.translation.truncate().distance(world_pos) < 15.0`
Near(o, world_pos) ==
    (o.x - world_pos[1]) * (o.x - world_pos[1])
      + (o.y - world_pos[2]) * (o.y - world_pos[2]) < PICK_RADIUS * PICK_RADIUS

\* The Select tool's press: the first object in query order that is near the
\* cursor; the order of the scene_objects query is not fixed by the code.
Found(obs, world_pos) ==
    LET near == {k \in DOMAIN obs : Near(obs[k], world_pos)}
    IN  IF near = {} THEN {0} ELSE {obs[k].entity : k \in near}

\* The scene objects a click or a drag can reach.
Objects == sources \o obstacles

\* `transform.translation.x = ...; transform.translation.y = ...` on entity e
MoveTo(objs, e, px, py) ==
    [k \in DOMAIN objs |->
        IF objs[k].entity = e THEN [objs[k] EXCEPT !.x = px, !.y = py] ELSE objs[k]]

\* handle_mouse_input with the Select tool: over_ui is is_pointer_over_area(),
\* held the left button's state in this frame, right a right click.
handle_mouse_input ==
    /\ RtMayRun("handle_mouse_input")
    /\ \E over_ui \in BOOLEAN, world_pos \in CursorPoints, held \in BOOLEAN,
          right \in BOOLEAN :
          LET just_pressed == held /\ ~mouse_left
              just_released == ~held /\ mouse_left
          IN  /\ mouse_left' = held
              /\ IF over_ui
                 THEN UNCHANGED <<ui_state, sources, obstacles>>
                 ELSE \E found \in Found(Objects, world_pos) :
                        LET target == CHOOSE o \in {Objects[k] : k \in DOMAIN Objects} :
                                         o.entity = found
                            s1 == IF ~just_pressed THEN ui_state
                                  ELSE IF found = 0
                                  THEN [ui_state EXCEPT !.selected_entity = 0]
                                  ELSE [selected_entity |-> found,
                                        dragging |-> found,
                                        drag_offset |->
                                           <<target.x - world_pos[1],
                                             target.y - world_pos[2]>>]
                            s2 == IF just_released THEN [s1 EXCEPT !.dragging = 0]
                                  ELSE s1
                            s3 == IF right THEN [s2 EXCEPT !.selected_entity = 0]
                                  ELSE s2
                            px == world_pos[1] + s1.drag_offset[1]
                            py == world_pos[2] + s1.drag_offset[2]
                        IN  /\ ui_state' = s3
                            /\ IF held /\ s1.dragging # 0
                               THEN /\ sources' = MoveTo(sources, s1.dragging, px, py)
                                    /\ obstacles' = MoveTo(obstacles, s1.dragging, px, py)
                               ELSE UNCHANGED <<sources, obstacles>>
    /\ RtDone("handle_mouse_input")
    /\ last' = Op("handle_mouse_input")
    /\ UNCHANGED <<fieldVars, rt_config, probes, rt_systems, commands,
                   probe_ticks, after_clear, raster_log>>
    /\ UNCHANGED poolVars
    /\ UNCHANGED <<stepVars, psVars, passVars, run>>

\* render_inspector_ui with no slider moved: the Enabled checkbox of a
\* selected source, and the Delete button of a selected source or obstacle,
\* which queues its despawn.
render_inspector_ui ==
    /\ RtMayRun("render_inspector_ui")
    /\ \E toggled \in BOOLEAN, clicked \in BOOLEAN :
          /\ sources' = [k \in DOMAIN sources |->
                            IF toggled /\ sources[k].entity = ui_state.selected_entity
                            THEN [sources[k] EXCEPT !.enabled = ~sources[k].enabled]
                            ELSE sources[k]]
          /\ commands' = IF clicked /\ ui_state.selected_entity \in Entities(Objects)
                         THEN commands \cup {ui_state.selected_entity}
                         ELSE commands
    /\ RtDone("render_inspector_ui")
    /\ last' = Op("render_inspector_ui")
    /\ UNCHANGED <<fieldVars, rt_config, obstacles, probes, rt_systems, ui_state,
                   mouse_left, probe_ticks, after_clear, raster_log>>
    /\ UNCHANGED poolVars
    /\ UNCHANGED <<stepVars, psVars, passVars, run>>

\* The end of the Update schedule: the queued despawns take effect.
apply_deferred ==
    /\ RtMayRun("apply_deferred")
    /\ sources' = SelectSeq(sources, LAMBDA o : o.entity \notin commands)
    /\ obstacles' = SelectSeq(obstacles, LAMBDA o : o.entity \notin commands)
    /\ commands' = {}
    /\ RtDone("apply_deferred")
    /\ last' = Op("apply_deferred")
    /\ UNCHANGED <<fieldVars, rt_config, probes, rt_systems, ui_state,
                   mouse_left, probe_ticks, after_clear, raster_log>>
    /\ UNCHANGED poolVars
    /\ UNCHANGED <<stepVars, psVars, passVars, run>>

\* ---------------------------------------------------------- specifications
\* The Binary Spiral plugin alone.
Init ==
    /\ PoolInit
    /\ WaveState(GRID_WIDTH, GRID_HEIGHT, DefaultScene)
    /\ Idle("binary_spiral", MaxPoolFrames)
    /\ last = Op("init")

Next == emit_particles \/ emit_call \/ update_particles \/ render_ui

Spec == Init /\ [][Next]_vars

\* The Ripple Tank plugin alone, with no key pressed and no object edited.
WaveSpecInit ==
    /\ PoolState(MaxLife)
    /\ WaveInit
    /\ Idle("ripple_tank", 0)
    /\ last = Op("init")

WaveNext ==
    rasterize_obstacles \/ apply_wave_sources \/ update_wave_field \/ update_probes

SpecWave == WaveSpecInit /\ [][WaveNext]_vars

\* The Ripple Tank's obstacles being dragged, deleted and rasterized.
RasterSpecInit ==
    /\ PoolState(MaxLife)
    /\ RasterInit
    /\ Idle("ripple_tank", 0)
    /\ last = Op("init")

RasterNext ==
    handle_mouse_input \/ rasterize_obstacles \/ render_inspector_ui \/ apply_deferred

SpecRaster == RasterSpecInit /\ [][RasterNext]_vars

\* The Ripple Tank's grid under the keyboard (pause, clear) and the inspector.
ControlSpecInit ==
    /\ PoolState(MaxLife)
    /\ ControlInit
    /\ Idle("ripple_tank", 0)
    /\ last = Op("init")

ControlNext ==
    \/ handle_keyboard_input
    \/ rasterize_obstacles
    \/ apply_wave_sources
    \/ update_wave_field
    \/ render_inspector_ui
    \/ apply_deferred

SpecControl == ControlSpecInit /\ [][ControlNext]_vars

\* The injector and the stepper on the wide grid.
InjectSpecInit ==
    /\ PoolState(MaxLife)
    /\ InjectInit
    /\ Idle("ripple_tank", 0)
    /\ last = Op("init")

InjectNext == apply_wave_sources \/ update_wave_field

SpecInject == InjectSpecInit /\ [][InjectNext]_vars

\* The Ripple Tank's clock under the keyboard, with sources that move and
\* sources outside the grid.
ClockSpecInit ==
    /\ PoolState(MaxLife)
    /\ ClockInit
    /\ Idle("ripple_tank", 0)
    /\ last = Op("init")

ClockNext ==
    \/ handle_keyboard_input
    \/ update_moving_sources
    \/ apply_wave_sources
    \/ update_wave_field

SpecClock == ClockSpecInit /\ [][ClockNext]_vars

\* A single obstacle being dragged and rasterized.
DragSpecInit ==
    /\ PoolState(MaxLife)
    /\ DragInit
    /\ Idle("ripple_tank", 0)
    /\ last = Op("init")

DragNext == handle_mouse_input \/ rasterize_obstacles

SpecDrag == DragSpecInit /\ [][DragNext]_vars

\* The grid's writers, the stepper followed cell by cell.
StepSpecInit ==
    /\ PoolState(MaxLife)
    /\ StepInit
    /\ Idle("ripple_tank", 0)
    /\ last = Op("init")

StepNext ==
    \/ rasterize_obstacles
    \/ apply_wave_sources
    \/ update_wave_field_begin
    \/ update_wave_field_cell
    \/ update_wave_field_end

SpecStep == StepSpecInit /\ [][StepNext]_vars

\* The Binary Spiral or the Particle System, the update of the particles
\* followed element by element.
PassInit ==
    /\ WaveState(GRID_WIDTH, GRID_HEIGHT, DefaultScene)
    /\ last = Op("init")
    /\ \/ /\ PoolInit
          /\ Idle("binary_spiral", MaxPassFrames)
       \/ /\ PoolState(MaxLife)
          /\ Run("particle_system", MaxPassFrames)
          /\ PsState

PassNext ==
    \/ emit_particles
    \/ emit_call
    \/ update_particles_begin
    \/ update_particle
    \/ render_ui
    \/ ps_update_particles
    \/ ps_update_particle
    \/ ps_render_ui

SpecPass == PassInit /\ [][PassNext]_vars

\* ======================================================= particle pool claims
Max(S) == CHOOSE m \in S : \A x \in S : x <= m

\* The emissions 1..emitted that landed in slot s under the ring rule
\* "emission n occupies slot (n-1) mod capacity".
RingEmissions(s) == {n \in 1 .. emitted : (n - 1) % MAX_PARTICLES = s}

ActiveSlots == {s \in DOMAIN particles : particles[s].active}

\* C1: after any number of emissions (capacity + k included) the pool holds
\* exactly capacity slots; the emission a slot holds is the latest n with
\* (n-1) mod capacity = slot, so only the most recent capacity emissions
\* survive and the k oldest are the ones overwritten; a slot is active exactly
\* when the emission it holds has not yet outlived its life (counted in
\* unpaused updates since it was emitted); at most capacity slots are active.
C1_PoolCapacity ==
    /\ DOMAIN particles = Slots
    /\ \A s \in Slots :
          /\ em_tag[s] = (IF RingEmissions(s) = {} THEN 0 ELSE Max(RingEmissions(s)))
          /\ em_tag[s] # 0 => em_tag[s] > emitted - MAX_PARTICLES
          /\ particles[s].active <=>
                (em_tag[s] # 0 /\ (em_age[s] = 0 \/ em_life[s] > em_age[s]))
    /\ Cardinality(ActiveSlots) <= MAX_PARTICLES

\* More than capacity emissions were made, an emission overwrote a slot that
\* was still active, and the pool holds live and expired emissions.
C1_Witness ==
    /\ emitted > MAX_PARTICLES
    /\ \E s \in Slots : particles[s].active /\ em_age[s] >= 1
    /\ \E s \in Slots : ~particles[s].active /\ em_tag[s] # 0

\* C2: next_index stays in [0, capacity) and the pool always has exactly
\* capacity slots.
C2_IndexInRange ==
    /\ next_index \in 0 .. (MAX_PARTICLES - 1)
    /\ DOMAIN particles = Slots
    /\ Cardinality(DOMAIN particles) = MAX_PARTICLES

\* The write index has wrapped round to 0 and updates have run since.
C2_Witness ==
    /\ emitted >= MAX_PARTICLES
    /\ next_index = 0
    /\ \E s \in Slots : em_tag[s] # 0 /\ em_age[s] >= 1

\* C3: every pool.emit call finds its slot (it cannot fail), overwrites exactly
\* the slot at next_index with the given position, velocity, color and life,
\* sets active, leaves every other slot unchanged and advances next_index
\* modulo the capacity.
C3_EmitFrame ==
    [][ last'.op = "emit" =>
          /\ next_index \in DOMAIN particles
          /\ particles'[next_index] =
                [position |-> last'.args.position, velocity |-> last'.args.velocity,
                 color |-> last'.args.color, life |-> last'.args.life,
                 active |-> TRUE]
          /\ DOMAIN particles' = DOMAIN particles
          /\ \A s \in DOMAIN particles \ {next_index} : particles'[s] = particles[s]
          /\ next_index' = (next_index + 1) % MAX_PARTICLES ]_vars

\* An emit has just overwritten a slot that was still active.
C3_Witness ==
    /\ last.op = "emit"
    /\ last.was_active
    /\ emitted > MAX_PARTICLES

\* C4: an unpaused update_particles moves every active particle by its
\* velocity once, lowers its life by one but not below zero, deactivates it
\* exactly when the life is then zero, and changes nothing else: inactive
\* particles, velocities, colours and next_index stay, nothing is activated.
C4_UpdateEffect ==
    [][ (last'.op = "update_particles" /\ ~bs_config.paused) =>
          /\ DOMAIN particles' = DOMAIN particles
          /\ \A s \in DOMAIN particles :
                IF particles[s].active
                THEN /\ particles'[s].position =
                           VAdd(particles[s].position, particles[s].velocity)
                     /\ particles'[s].velocity = particles[s].velocity
                     /\ particles'[s].color = particles[s].color
                     /\ particles'[s].life =
                           (IF particles[s].life = 0 THEN 0 ELSE particles[s].life - 1)
                     /\ particles'[s].active <=> (particles'[s].life # 0)
                ELSE particles'[s] = particles[s]
          /\ next_index' = next_index ]_vars

\* An unpaused update has just run: one particle moved and is still alive,
\* another has expired.
C4_Witness ==
    /\ last.op = "update_particles"
    /\ ~bs_config.paused
    /\ \E s \in Slots : /\ particles[s].active
                        /\ em_age[s] >= 1
                        /\ particles[s].velocity # Vec3Zero
    /\ \E s \in Slots : ~particles[s].active /\ em_tag[s] # 0 /\ em_age[s] >= 1

\* ========================================================= wave field claims
\* C5: an unpaused update_wave_field leaves 0.0 in every cell whose
\* obstacle_map is 0.0, whatever the cell held before the step.
C5_BlockedCellsZero ==
    [][ (last'.op = "update_wave_field" /\ ~rt_config.paused) =>
          \A i \in Cells(width, height) : obstacle_map[i] = 0 => current'[i] = 0 ]_vars

\* A step has just zeroed a reflector cell that the injector had written.
C5_Witness ==
    /\ last.op = "update_wave_field"
    /\ \E i \in Cells(width, height) :
          obstacle_map[i] = 0 /\ previous[i] # 0 /\ current[i] = 0

\* C6: with source amplitudes of at most 2.0, wave_speed in [0.1, 5.0] and
\* damping in [0.9, 1.0], every cell of current stays in [-5.0, 5.0].
C6_EnergyBound ==
    \A i \in DOMAIN current :
        current[i] >= -CLAMP_LIMIT * SCALE /\ current[i] <= CLAMP_LIMIT * SCALE

\* The clamp has acted: after a step a cell sits exactly on the bound.
C6_Witness ==
    /\ last.op = "update_wave_field"
    /\ \A k \in DOMAIN sources : sources[k].amplitude <= 2 * SCALE
    /\ \E i \in DOMAIN current : Abs(current[i]) = CLAMP_LIMIT * SCALE

\* World positions around and inside the grid, two cells beyond every side.
SamplePoints ==
    {<<World(gx, width), World(gy, height)>> :
        gx \in (-2) .. (width + 1), gy \in (-2) .. (height + 1)}

\* floor(world / GRID_SCALE + n / 2)
FloorCoord(world, n) == GridCoord2(world, n) \div 2

\* C7: sample returns 0.0 for every position whose cell (by floor) is outside
\* the grid on any side, and current[grid_y*width + grid_x] inside it.
C7_SampleOutOfBounds ==
    \A p \in SamplePoints :
        LET grid_x == FloorCoord(p[1], width)
            grid_y == FloorCoord(p[2], height)
        IN  IF grid_x >= 0 /\ grid_x < width /\ grid_y >= 0 /\ grid_y < height
            THEN sample(current, width, height, p[1], p[2]) = current[idx(grid_x, grid_y, width)]
            ELSE sample(current, width, height, p[1], p[2]) = 0

\* The order rasterize -> inject -> step -> sample.
Rank(sys) ==
    CASE sys = "rasterize_obstacles" -> 1
      [] sys = "apply_wave_sources" -> 2
      [] sys = "update_wave_field" -> 3
      [] sys = "update_probes" -> 4

\* C8: in every frame the systems that touch the grid run in the order
\* rasterize_obstacles -> apply_wave_sources -> update_wave_field ->
\* update_probes, one at a time.
C8_StrictOrder ==
    \A i, j \in DOMAIN rt_order : i < j => Rank(rt_order[i]) < Rank(rt_order[j])

\* C9: every update_probes tick appends the sampled value to each probe's
\* history and, when that makes it longer than MAX_PROBE_HISTORY, drops the
\* oldest sample, keeping the others in order; the history is never longer
\* than MAX_PROBE_HISTORY and is exactly that long after more than
\* MAX_PROBE_HISTORY ticks.
C9_ProbeFifo ==
    /\ [](\A k \in DOMAIN probes :
             /\ Len(probes[k].history) <= MAX_PROBE_HISTORY
             /\ probe_ticks > MAX_PROBE_HISTORY =>
                   Len(probes[k].history) = MAX_PROBE_HISTORY)
    /\ [][ last'.op = "update_probes" =>
             \A k \in DOMAIN probes :
                LET h == probes[k].history
                    h2 == probes'[k].history
                IN  /\ Len(h2) >= 1
                    /\ h2[Len(h2)] = sample(current, width, height,
                                            probes[k].x, probes[k].y)
                    /\ SubSeq(h2, 1, Len(h2) - 1) =
                          (IF Len(h) < MAX_PROBE_HISTORY THEN h ELSE Tail(h)) ]_vars

\* More than MAX_PROBE_HISTORY ticks have run and a full history holds
\* different samples, so an eviction out of order would show.
C9_Witness ==
    /\ last.op = "update_probes"
    /\ probe_ticks > MAX_PROBE_HISTORY
    /\ \E k \in DOMAIN probes :
          /\ Len(probes[k].history) = MAX_PROBE_HISTORY
          /\ \A a, b \in DOMAIN probes[k].history :
                a # b => probes[k].history[a] # probes[k].history[b]

\* ===================================================== rasterization claims
\* Obstacle o stamps cell i: the cell lies in o's box around its centre and
\* not in a slit column.
Covers(o, i, w, h) ==
    LET dx == (i % w) - center_x(o, w)
        dy == (i \div w) - center_y(o, h)
    IN  /\ Abs(dx) <= HalfExtent(o.width)
        /\ Abs(dy) <= HalfExtent(o.height)
        /\ ~InSlit(o, dx)

\* What the obstacle list alone says about cell i: the value of the last
\* obstacle in iteration order that stamps it, 1.0 if none does.
Expected(obs, i, w, h) ==
    LET ks == {k \in DOMAIN obs : Covers(obs[k], i, w, h)}
    IN  IF ks = {} THEN SCALE ELSE StampValue(obs[Max(ks)])

\* C10: the obstacle_map after rasterize_obstacles is a function of the
\* obstacle list alone: two rasterizations of the same list give the same
\* map whatever the map held before, and every cell that no obstacle of the
\* list stamps (the footprint of a moved or deleted obstacle included) is 1.0.
C10_FrameStateless ==
    /\ [](\A e1, e2 \in raster_log : e1[2] = e2[2] => e1[3] = e2[3])
    /\ [][ last'.op = "rasterize_obstacles" =>
             \A i \in Cells(width, height) :
                obstacle_map'[i] = Expected(obstacles, i, width, height) ]_vars

\* The same obstacle list was rasterized over two different maps, once after
\* a drag had moved an obstacle away and back; and a rasterization that
\* followed a deletion returned a stamped cell to 1.0.
C10_Witness ==
    /\ last.op = "rasterize_obstacles"
    /\ \E e1, e2 \in raster_log :
          /\ e1[2] = e2[2] /\ e1[1] # e2[1]
          /\ \E i \in Cells(width, height) : e2[1][i] # e2[3][i]
    /\ \E e \in raster_log :
          /\ Len(e[2]) < 2
          /\ \E i \in Cells(width, height) : e[1][i] # SCALE /\ e[3][i] = SCALE

\* ================================================ clear and pause claims
Cleared == last.op = "handle_keyboard_input" /\ "KeyC" \in last.args.keys

\* C11: clear() followed by one unpaused step, with no enabled source
\* injected in between (all sources disabled), leaves current and previous
\* zero in every cell, for any wave_speed, damping and obstacle_map.
C11_ClearThenStep ==
    after_clear.phase = "stepped" =>
        \A i \in DOMAIN current : current[i] = 0 /\ previous[i] = 0

\* The clear found a non-zero field; the only source had been disabled in
\* the inspector, the injector ran between the clear and the step, and the
\* obstacle_map holds stamped cells.
C11_Witness ==
    /\ after_clear = [phase |-> "stepped", dirty |-> TRUE]
    /\ last.op = "update_wave_field"
    /\ sources # <<>>
    /\ \A k \in DOMAIN sources : ~sources[k].enabled
    /\ \E a, b \in DOMAIN rt_order :
          /\ a < b
          /\ rt_order[a] = "handle_keyboard_input"
          /\ rt_order[b] = "apply_wave_sources"
    /\ \E i \in DOMAIN obstacle_map : obstacle_map[i] # SCALE

\* C12: current, previous and obstacle_map always have exactly width*height
\* elements, and width and height keep the values they were built with.
C12_BufferSizes ==
    /\ width = GRID_WIDTH
    /\ height = GRID_HEIGHT
    /\ DOMAIN current = 0 .. (width * height - 1)
    /\ DOMAIN previous = 0 .. (width * height - 1)
    /\ DOMAIN obstacle_map = 0 .. (width * height - 1)

\* A clear of a non-zero field, after rasterization, injection and a step
\* have all run.
C12_Witness ==
    /\ Cleared
    /\ last.args.dirty
    /\ rt_frame >= 1
    /\ \E i \in DOMAIN obstacle_map : obstacle_map[i] # SCALE
    /\ \E e \in raster_log : \E i \in DOMAIN e[1] : e[1][i] # SCALE

\* C13: clear() zeroes every cell of current and previous and leaves
\* obstacle_map as it was; clear_obstacles() sets every cell of obstacle_map
\* to 1.0 (what rasterize_obstacles then stamps aside) and leaves current and
\* previous as they were.
C13_ClearEffect ==
    /\ [](\A i \in DOMAIN obstacle_map : clear_obstacles(obstacle_map)[i] = SCALE)
    /\ [][ /\ (last'.op = "handle_keyboard_input" /\ "KeyC" \in last'.args.keys) =>
                /\ \A i \in DOMAIN current : current'[i] = 0 /\ previous'[i] = 0
                /\ DOMAIN current' = DOMAIN current
                /\ DOMAIN previous' = DOMAIN previous
                /\ obstacle_map' = obstacle_map
           /\ last'.op = "rasterize_obstacles" =>
                /\ current' = current
                /\ previous' = previous
                /\ \A i \in DOMAIN obstacle_map :
                      (\A k \in DOMAIN obstacles :
                          ~(/\ Abs((i % width) - center_x(obstacles[k], width))
                                 <= HalfExtent(obstacles[k].width)
                            /\ Abs((i \div width) - center_y(obstacles[k], height))
                                 <= HalfExtent(obstacles[k].height)))
                      => obstacle_map'[i] = SCALE ]_vars

\* A clear has just zeroed a non-zero field under a stamped obstacle_map, and
\* an earlier rasterization started from a stamped map.
C13_Witness ==
    /\ Cleared
    /\ last.args.dirty
    /\ \E i \in DOMAIN obstacle_map : obstacle_map[i] = 0
    /\ \E e \in raster_log : \E i \in DOMAIN e[1] : e[1][i] = 0 /\ e[3][i] = 0

\* C14: while config.paused is true, no step other than a user clear changes
\* current, previous or accumulated_time: apply_wave_sources and
\* update_wave_field return at once.
C14_PausedFrozen ==
    [][ (rt_config.paused /\ ~(last'.op = "handle_keyboard_input"
                                /\ "KeyC" \in last'.args.keys)) =>
           /\ current' = current
           /\ previous' = previous
           /\ rt_config'.accumulated_time = rt_config.accumulated_time ]_vars

\* A frame that began paused (the keyboard ran first and left it paused) has
\* run the injector and the stepper over a non-zero field with an enabled
\* source.
C14_Witness ==
    /\ rt_config.paused
    /\ last.op = "update_wave_field"
    /\ rt_frame >= 1
    /\ Len(rt_order) >= 3
    /\ rt_order[1] = "handle_keyboard_input"
    /\ "apply_wave_sources" \in rt_ran
    /\ \E i \in DOMAIN current : current[i] # 0
    /\ \E k \in DOMAIN sources : sources[k].enabled

\* ========================================================= injection claims
\* The grid cell of a source.
SourceCell(src) ==
    <<AsUsize(GridCoord2(src.x, width)), AsUsize(GridCoord2(src.y, height))>>

\* A frame's injection of a single enabled source of the given type.
InjectsOnly(type) ==
    /\ last'.op = "apply_wave_sources"
    /\ ~rt_config.paused
    /\ Len(sources) = 1
    /\ sources[1].enabled
    /\ sources[1].source_type = type

\* C15: a PhasedArray{count} source at (grid_x, grid_y) writes exactly the
\* in-grid cells of row grid_y at the columns
\* grid_x - 4*(count-1) + 8*i, i = 0..count-1, element i with its phased
\* value; every other cell keeps its value.
C15_PhasedArrayCells ==
    [][ InjectsOnly("PhasedArray") =>
          LET src == sources[1]
              g == SourceCell(src)
              first == g[1] - ((src.count - 1) * ARRAY_SPACING) \div 2
              Elem(i) == {e \in 0 .. (src.count - 1) :
                             /\ i \div width = g[2]
                             /\ i % width = first + e * ARRAY_SPACING}
          IN  \A i \in Cells(width, height) :
                 IF Elem(i) # {}
                 THEN current'[i] = PhasedValue(src, rt_config.accumulated_time,
                                                CHOOSE e \in Elem(i) : TRUE)
                 ELSE current'[i] = current[i] ]_vars

\* C16: a Line source at (grid_x, grid_y) writes its value into exactly the
\* in-grid cells of row grid_y at the columns grid_x - 20 .. grid_x + 19;
\* every other cell keeps its value.
C16_LineCells ==
    [][ InjectsOnly("Line") =>
          LET src == sources[1]
              g == SourceCell(src)
          IN  \A i \in Cells(width, height) :
                 IF /\ i \div width = g[2]
                    /\ i % width >= g[1] - LINE_HALF_LEN
                    /\ i % width < g[1] + LINE_HALF_LEN
                 THEN current'[i] = WaveValue(src, rt_config.accumulated_time)
                 ELSE current'[i] = current[i] ]_vars

Blank(v) == [i \in Cells(width, height) |-> v]

\* Source src writes cell i: the cell comes out the same from two buffers
\* that differ everywhere.
Writes(src, i) ==
    StampSource(Blank(0), src, width, height, rt_config.accumulated_time)[i]
      = StampSource(Blank(1), src, width, height, rt_config.accumulated_time)[i]

Writers(i) == {k \in DOMAIN sources : sources[k].enabled /\ Writes(sources[k], i)}

Written(k, i) ==
    StampSource(Blank(0), sources[k], width, height, rt_config.accumulated_time)[i]

\* C17: after an unpaused apply_wave_sources every cell that some enabled
\* source writes holds exactly the value of the last source in processing
\* order that writes it, whatever it held before and whatever the earlier
\* sources wrote; the other cells keep their value.
C17_LastWriterWins ==
    [][ (last'.op = "apply_wave_sources" /\ ~rt_config.paused) =>
          \A i \in Cells(width, height) :
             IF Writers(i) = {}
             THEN current'[i] = current[i]
             ELSE current'[i] = Written(Max(Writers(i)), i) ]_vars

\* After a frame has passed, the injector has just written a cell that three
\* sources write, each a different value.
C17_Witness ==
    /\ last.op = "apply_wave_sources"
    /\ rt_frame >= 1
    /\ \E i \in Cells(width, height) :
          /\ Cardinality(Writers(i)) = 3
          /\ \A j, k \in Writers(i) : j # k => Written(j, i) # Written(k, i)
          /\ current[i] = Written(Max(Writers(i)), i)

\* ================================================== slit and overlap claims
\* Cell i lies in the bounding box of obstacle o.
InBox(o, i) ==
    /\ Abs((i % width) - center_x(o, width)) <= HalfExtent(o.width)
    /\ Abs((i \div width) - center_y(o, height)) <= HalfExtent(o.height)

\* Column offset dx is within slit_width/2 (in world units) of the centre
\* column of a single slit, or of one of the two columns at
\* +-slit_separation/2 of a double slit.
SlitColumn(o, dx) ==
    LET sep == o.slit_separation \div (2 * GRID_SCALE)
    IN  CASE o.obstacle_type = "SingleSlit" ->
                2 * GRID_SCALE * Abs(dx) <= o.slit_width
          [] o.obstacle_type = "DoubleSlit" ->
                \/ 2 * GRID_SCALE * Abs(dx - sep) <= o.slit_width
                \/ 2 * GRID_SCALE * Abs(dx + sep) <= o.slit_width
          [] OTHER -> FALSE

Slits == {k \in DOMAIN obstacles :
             obstacles[k].obstacle_type \in {"SingleSlit", "DoubleSlit"}}

\* C18: after rasterize_obstacles, every in-grid cell of a slit obstacle's
\* bounding box that no later obstacle stamps is 0.0, except in the slit
\* columns (one band for a SingleSlit, two for a DoubleSlit), where it holds
\* what the earlier obstacles left there, 1.0 if none covers it.
C18_SlitColumns ==
    [][ last'.op = "rasterize_obstacles" =>
          \A k \in Slits : \A i \in Cells(width, height) :
             (/\ InBox(obstacles[k], i)
              /\ \A l \in DOMAIN obstacles : l > k => ~Covers(obstacles[l], i, width, height))
             => obstacle_map'[i] =
                   IF SlitColumn(obstacles[k], (i % width) - center_x(obstacles[k], width))
                   THEN Expected(SubSeq(obstacles, 1, k - 1), i, width, height)
                   ELSE 0 ]_vars

\* A single slit and a double slit have been rasterized over a refraction
\* block: slit columns of each show the block's value, the other columns 0.0.
C18_Witness ==
    /\ last.op = "rasterize_obstacles"
    /\ \A type \in {"SingleSlit", "DoubleSlit"} :
          \E k \in Slits :
             /\ obstacles[k].obstacle_type = type
             /\ \E i, j \in Cells(width, height) :
                   /\ InBox(obstacles[k], i) /\ InBox(obstacles[k], j)
                   /\ obstacle_map[i] = 0
                   /\ obstacle_map[j] # 0 /\ obstacle_map[j] # SCALE

\* C19 as stated: in the overlap of two obstacles' bounding boxes, every cell
\* that lies in no later obstacle's box holds the value of the later-processed
\* obstacle of the two.
C19_OverlapBoxes ==
    [][ last'.op = "rasterize_obstacles" =>
          \A j, k \in DOMAIN obstacles : \A i \in Cells(width, height) :
             (/\ j < k
              /\ InBox(obstacles[j], i) /\ InBox(obstacles[k], i)
              /\ \A l \in DOMAIN obstacles : l > k => ~InBox(obstacles[l], i))
             => obstacle_map'[i] = StampValue(obstacles[k]) ]_vars

\* C19, amended: in the overlap, every cell that the later-processed obstacle
\* stamps (its box without its slit columns) and that no obstacle after it
\* stamps holds the later obstacle's value alone.
C19_OverlapStamped ==
    [][ last'.op = "rasterize_obstacles" =>
          \A j, k \in DOMAIN obstacles : \A i \in Cells(width, height) :
             (/\ j < k
              /\ InBox(obstacles[j], i) /\ Covers(obstacles[k], i, width, height)
              /\ \A l \in DOMAIN obstacles : l > k => ~Covers(obstacles[l], i, width, height))
             => obstacle_map'[i] = StampValue(obstacles[k]) ]_vars

\* A refraction block has overwritten a reflector's cell, and (in another
\* rasterization) a slit has overwritten cells of a refraction block under it.
C19_Witness ==
    /\ last.op = "rasterize_obstacles"
    /\ \E j, k \in DOMAIN obstacles : \E i \in Cells(width, height) :
          /\ j < k
          /\ StampValue(obstacles[j]) # StampValue(obstacles[k])
          /\ Covers(obstacles[j], i, width, height)
          /\ Covers(obstacles[k], i, width, height)
          /\ \A l \in DOMAIN obstacles : l > k => ~Covers(obstacles[l], i, width, height)
          /\ obstacle_map[i] = StampValue(obstacles[k])

\* ===================================================== pool schedule claim
\* C20: in every frame of the Binary Spiral, emit_particles and
\* update_particles run one at a time and in the same order: whenever
\* update_particles has run in the current frame, emit_particles has already
\* run in it.
C20_EmitBeforeUpdate ==
    "update_particles" \in bs_ran => "emit_particles" \in bs_ran

\* ======================================================== stepper claims
\* C21: within one update_wave_field step every computed cell of `next` is
\* the update of that cell from the pre-step current, previous and
\* obstacle_map, in whatever order the cells are evaluated; the evaluation of
\* a cell writes `next` only, and current and previous are replaced, by the
\* whole step's result and the pre-step current, only once all cells are done.
C21_CellOrderFree ==
    /\ [](step_pass.active =>
             \A i \in Interior(width, height) \ step_pass.todo :
                next[i] = StepCell(current, previous, obstacle_map, i, width,
                                   C2(rt_config.wave_speed), rt_config.damping))
    /\ [][ /\ last'.op = "update_wave_field_cell" =>
                /\ current' = current
                /\ previous' = previous
                /\ obstacle_map' = obstacle_map
           /\ last'.op = "update_wave_field_end" =>
                /\ step_pass.todo = {}
                /\ current' = NextBuffer(current, previous, obstacle_map, width, height,
                                         rt_config.wave_speed, rt_config.damping)
                /\ previous' = current ]_vars

\* In a running step a cell has been computed, to a non-zero value, before
\* its left or lower neighbour, which holds a non-zero amplitude and is still
\* to be computed.
C21_Witness ==
    /\ step_pass.active
    /\ \E i \in Interior(width, height) \ step_pass.todo :
          \E j \in step_pass.todo :
             /\ j \in {i - 1, i - width}
             /\ next[i] # 0
             /\ current[j] # 0

\* ================================================= element-order claims
\* C22: while a pass over the particles runs and when it has ended, every
\* element the pass has visited holds the update of its own state at the
\* start of the pass under the frame's parameters (dt, gravity, bounds), and
\* every other element its state at the start, whatever the order of the
\* visits; in the pool's update_particles and in the particle system's.
C22_ElementOrderFree ==
    /\ (pool_pass.active \/ last.op = "update_particle") =>
          \A slot \in Slots :
             particles[slot] = IF slot \in pool_pass.todo THEN pass_start[slot]
                               ELSE update_one(pass_start[slot])
    /\ (ps_pass.active \/ last.op = "ps_update_particle") =>
          \A e \in DOMAIN ps_particles :
             ps_particles[e] = IF e \in ps_pass.todo THEN pass_start[e]
                               ELSE update_body(pass_start, e, ps_pass.dt,
                                                ps_config.gravity, ps_config.bounds)

\* In a pass of the particle system, under gravity, a later element has
\* bounced off a wall (a component of its velocity turned round) before an
\* earlier element is visited.
C22_Witness ==
    /\ ps_pass.active
    /\ ps_config.gravity[2] # 0
    /\ \E e \in DOMAIN ps_particles \ ps_pass.todo :
          /\ \E f \in ps_pass.todo : f < e
          /\ \E axis \in 1 .. 3 :
                ps_particles[e].velocity[axis] * pass_start[e].velocity[axis] < 0

\* ================================================ rotation and edge claims
\* C23: after an unpaused update_wave_field, previous is cell for cell the
\* current buffer of just before the step, injected values included, and
\* current is the newly computed next buffer.
C23_Rotation ==
    [][ (last'.op = "update_wave_field" /\ ~rt_config.paused) =>
           /\ previous' = current
           /\ current' = NextBuffer(current, previous, obstacle_map, width, height,
                                    rt_config.wave_speed, rt_config.damping) ]_vars

\* In a later frame the injector ran before the stepper: previous holds the
\* injected amplitudes and differs from the new current.
C23_Witness ==
    /\ last.op = "update_wave_field"
    /\ rt_frame >= 1
    /\ \E a, b \in DOMAIN rt_order :
          /\ a < b
          /\ rt_order[a] = "apply_wave_sources"
          /\ rt_order[b] = "update_wave_field"
    /\ \E k \in DOMAIN sources :
          LET g == <<AsUsize(GridCoord2(sources[k].x, width)),
                     AsUsize(GridCoord2(sources[k].y, height))>>
          IN  /\ previous[idx(g[1], g[2], width)] # 0
              /\ previous[idx(g[1], g[2], width)] # current[idx(g[1], g[2], width)]
    /\ \E i \in Interior(width, height) : current[i] # 0

\* C27: after every unpaused update_wave_field every cell on the four edge
\* rows and columns of current is exactly 0.0, whatever current and previous
\* held before the step.
C27_EdgesZero ==
    [][ (last'.op = "update_wave_field" /\ ~rt_config.paused) =>
           \A i \in Cells(width, height) \ Interior(width, height) :
              current'[i] = 0 ]_vars

\* The step started from a current with a non-zero edge cell (a source sits
\* on the left edge column) and a non-zero interior.
C27_Witness ==
    /\ last.op = "update_wave_field"
    /\ \E i \in Cells(width, height) \ Interior(width, height) :
          /\ previous[i] # 0
          /\ current[i] = 0
    /\ \E i \in Interior(width, height) : previous[i] # 0 /\ current[i] # 0

\* ============================================================ clock claim
\* C24: accumulated_time changes only in an unpaused update_wave_field, which
\* adds dt * time_scale to it; every other step of every system (the
\* injector, the moving-source update, the keyboard's pause and clear, a
\* paused stepper) leaves it as it is, so it never decreases.
C24_ClockOwner ==
    [][ /\ (last'.op = "update_wave_field" /\ ~rt_config.paused) =>
              \E delta \in Dts :
                 rt_config'.accumulated_time
                    = rt_config.accumulated_time + delta * rt_config.time_scale
        /\ ~(last'.op = "update_wave_field" /\ ~rt_config.paused) =>
              rt_config'.accumulated_time = rt_config.accumulated_time
        /\ rt_config'.accumulated_time >= rt_config.accumulated_time ]_vars

\* The clock has advanced and the field has been cleared; in this frame,
\* begun by the keyboard, the moving-source update, the injector and the
\* stepper have run paused, and the moving source has left its first cell.
C24_Witness ==
    /\ last.op = "update_wave_field"
    /\ rt_config.paused
    /\ rt_config.accumulated_time > 0
    /\ Len(rt_order) = Cardinality(CLOCK_SYSTEMS)
    /\ rt_order[1] = "handle_keyboard_input"
    /\ \A i \in Cells(width, height) : current[i] = 0 /\ previous[i] = 0
    /\ \E k \in DOMAIN sources :
          sources[k].source_type = "Moving" /\ sources[k].x # World(1, GRID_WIDTH)

\* ====================================================== injector claims
\* The mapped grid coordinate of a source, world / GRID_SCALE + half-size,
\* lies in [0, width) x [0, height).
InGrid(src) ==
    /\ GridCoord2(src.x, width) >= 0
    /\ GridCoord2(src.x, width) < 2 * width
    /\ GridCoord2(src.y, height) >= 0
    /\ GridCoord2(src.y, height) < 2 * height

\* Cell i lies in the footprint of source src: the cell of a Point or Moving
\* source, the 40 columns around a Line source, the elements of a
\* PhasedArray, all on the source's row.
Footprint(src, i) ==
    LET gx == GridCoord2(src.x, width) \div 2
        gy == GridCoord2(src.y, height) \div 2
        dx == (i % width) - gx
    IN  /\ i \div width = gy
        /\ CASE src.source_type \in {"Point", "Moving"} -> InGrid(src) /\ dx = 0
             [] src.source_type = "Line" -> dx >= -LINE_HALF_LEN /\ dx < LINE_HALF_LEN
             [] src.source_type = "PhasedArray" ->
                   \E e \in 0 .. (src.count - 1) :
                      dx = e * ARRAY_SPACING - ((src.count - 1) * ARRAY_SPACING) \div 2

C28_OutsideWritesNothing ==
    [][ (last'.op = "apply_wave_sources" /\ ~rt_config.paused) =>
           \A i \in Cells(width, height) :
              (\A k \in DOMAIN sources :
                  ~(/\ sources[k].enabled
                    /\ sources[k].source_type \in {"Point", "Moving"}
                    /\ Footprint(sources[k], i)))
              => current'[i] = current[i] ]_vars

\* ============================================== single obstacle and drag
\* C26: after rasterize_obstacles with a single Reflector, or a single
\* RefractionBlock of refractive_index >= 1, every in-grid cell of the
\* obstacle's bounding box holds 0.0, respectively 1/refractive_index, every
\* cell outside the box holds 1.0, and every value lies in [0.0, 1.0].
C26_SingleBox ==
    [][ (/\ last'.op = "rasterize_obstacles"
         /\ Len(obstacles) = 1
         /\ \/ obstacles[1].obstacle_type = "Reflector"
            \/ /\ obstacles[1].obstacle_type = "RefractionBlock"
               /\ obstacles[1].refractive_index >= SCALE) =>
           \A i \in Cells(width, height) :
              /\ obstacle_map'[i] =
                    IF ~InBox(obstacles[1], i) THEN SCALE
                    ELSE IF obstacles[1].obstacle_type = "Reflector" THEN 0
                    ELSE FDiv(SCALE, obstacles[1].refractive_index)
              /\ obstacle_map'[i] >= 0
              /\ obstacle_map'[i] <= SCALE ]_vars

\* A refraction block dragged to the lower left corner has been rasterized:
\* its box sticks out of the grid on the left and at the bottom, its in-grid
\* cells hold 1/refractive_index and cells outside the box hold 1.0.
C26_Witness ==
    /\ last.op = "rasterize_obstacles"
    /\ Len(obstacles) = 1
    /\ obstacles[1].obstacle_type = "RefractionBlock"
    /\ center_x(obstacles[1], width) - HalfExtent(obstacles[1].width) < 0
    /\ center_y(obstacles[1], height) - HalfExtent(obstacles[1].height) < 0
    /\ \E i, j \in Cells(width, height) :
          /\ InBox(obstacles[1], i)
          /\ obstacle_map[i] \notin {0, SCALE}
          /\ ~InBox(obstacles[1], j)
          /\ obstacle_map[j] = SCALE
    /\ \E e \in raster_log : e[2] # obstacles

\* C30: once the left mouse button has been released no object is being
\* dragged: whenever the button is up, ui_state.dragging is None, wherever
\* the pointer was when the button was released.
C30_ReleaseEndsDrag ==
    ~mouse_left => ui_state.dragging = 0

\* ========================================================== lifetime claim
\* C29: a slot holding an emission of life L >= 1 is active exactly while
\* fewer than L unpaused updates have run since the emission, with the
\* remaining life L minus that number, and is inactive with life 0 from the
\* L-th update on; an inactive slot keeps all its fields until an emit
\* overwrites it; so after every update_particles call every such active
\* particle has life > 0.
C29_Lifetime ==
    /\ [](\A s \in Slots :
             (em_tag[s] # 0 /\ em_life[s] >= 1) =>
                /\ particles[s].active <=> em_age[s] < em_life[s]
                /\ particles[s].active => particles[s].life = em_life[s] - em_age[s]
                /\ ~particles[s].active => particles[s].life = 0
                /\ (last.op = "update_particles" /\ particles[s].active)
                      => particles[s].life > 0)
    /\ [][ \A s \in Slots :
              (~particles[s].active /\ ~(last'.op = "emit" /\ s = next_index))
              => particles'[s] = particles[s] ]_vars

\* An emission of life 2 or more has expired and has since sat through a
\* further unpaused update, while a younger emission is still alive after an
\* update.
C29_Witness ==
    /\ last.op = "update_particles"
    /\ ~bs_config.paused
    /\ \E s \in Slots :
          /\ em_tag[s] # 0
          /\ em_life[s] >= 2
          /\ em_age[s] > em_life[s]
          /\ ~particles[s].active
    /\ \E s \in Slots :
          /\ particles[s].active
          /\ em_age[s] >= 1

====
